---------------------------- MODULE Spec2Model ----------------------------
(***************************************************************************)
(* Model of the LangGraph chatbot: the six-node workflow of                *)
(* workflows/chatbot_graph.py and workflows/nodes.py, the validators of    *)
(* utils/validators.py, the in-memory session cache of                     *)
(* services/cache_service.py, the message store of                         *)
(* services/message_service.py and the orchestration of                    *)
(* services/chatbot_service.py.                                            *)
(*                                                                         *)
(* A Python str is a sequence of lexemes; each lexeme stands for a fixed   *)
(* run of characters (see CharLen).  The empty str is << >>, string        *)
(* concatenation and f-strings are \o.                                      *)
(***************************************************************************)
EXTENDS Integers, Sequences, FiniteSets, TLC

\* ------------------------------------------------------------------ bounds
\* Longest query, in lexemes, that a caller passes to process_query.
MaxQueryLen == 2
\* Supplied histories are as long as MAX_HISTORY + MaxOver entries.
MaxOver == 1
\* Short supplied histories have 0..MaxShort entries.
MaxShort == 2
\* process_chat_message calls in a behaviour of ChatSpec.
MaxChats == 2
\* process_chat_message calls in a behaviour of SessionSpec.
MaxExchanges == 12
\* The clock stops at MaxNow minutes.
MaxNow == 61
MaxDagCalls == 2
MaxRounds == 2
MaxClears == 1

\* --------------------------------------------------------- program constants
MAX_QUERY_LENGTH == 5000
MIN_QUERY_LENGTH == 1
MAX_HISTORY == 20
LLM_CONTEXT == 10
CACHE_EXPIRATION_MINUTES == 60
DB_HISTORY_LIMIT == 20

\* --------------------------------------------------------------------- text
\* Python's None, where a str or a list is expected.
None == <<"<None>">>

SP == " "
WORD == "hi"
KW == "calculate"
EXPR == "2+2"
TAG == "<b>"
JS == "javascript:"
BIG == "a*5000"

Lexemes == {SP, WORD, KW, EXPR, TAG, JS, BIG}

\* len() of the characters a lexeme stands for.
CharLen(x) ==
    CASE x = SP -> 1
      [] x = WORD -> 2
      [] x = KW -> 9
      [] x = EXPR -> 3
      [] x = TAG -> 3
      [] x = JS -> 11
      [] x = BIG -> MAX_QUERY_LENGTH
      [] OTHER -> 1

RECURSIVE TextLen(_)
TextLen(t) == IF t = << >> THEN 0 ELSE CharLen(Head(t)) + TextLen(Tail(t))

\* \w at the first / last character of a lexeme (for the regex \b).
WordStart(x) == x \in {WORD, KW, EXPR, BIG, JS}
WordEnd(x) == x \in {WORD, KW, EXPR, BIG}

RECURSIVE LStrip(_)
LStrip(t) == IF t # << >> /\ Head(t) = SP THEN LStrip(Tail(t)) ELSE t

RECURSIVE RStrip(_)
RStrip(t) ==
    IF t # << >> /\ t[Len(t)] = SP THEN RStrip(SubSeq(t, 1, Len(t) - 1)) ELSE t

\* str.strip()
Strip(t) == RStrip(LStrip(t))

\* re.sub(pattern, '', t) for a pattern that matches exactly the lexemes of S.
RECURSIVE Remove(_, _)
Remove(t, S) ==
    IF t = << >> THEN << >>
    ELSE IF Head(t) \in S THEN Remove(Tail(t), S)
    ELSE <<Head(t)>> \o Remove(Tail(t), S)

\* re.sub(r'\s+', ' ', t)
RECURSIVE CollapseSpaces(_)
CollapseSpaces(t) ==
    IF Len(t) < 2 THEN t
    ELSE IF t[1] = SP /\ t[2] = SP THEN CollapseSpaces(Tail(t))
    ELSE <<Head(t)>> \o CollapseSpaces(Tail(t))

\* seq[-n:]
LastN(s, n) == IF Len(s) > n THEN SubSeq(s, Len(s) - n + 1, Len(s)) ELSE s

\* seq[:n]
FirstN(s, n) == IF Len(s) > n THEN SubSeq(s, 1, n) ELSE s

\* Python's None, where a list of dicts is expected.
NoneList == <<[type |-> "<None>"]>>

\* Python truthiness of a str that may be None.
Truthy(v) == v # None /\ v # << >>

\* Python truthiness of a list that may be None.
ListTruthy(v) == v # NoneList /\ v # << >>


\* --------------------------------------------------------------- validators
\* QueryValidator._contains_harmful_content: the denylisted patterns.
_contains_harmful_content(q) == \E i \in 1..Len(q) : q[i] = JS

\* QueryValidator.validate_query: (is_valid, error_message).
validate_query(q) ==
    IF q = None THEN [ok |-> FALSE, error |-> <<"Query cannot be None">>]
    ELSE LET stripped == Strip(q) IN
        IF TextLen(stripped) < MIN_QUERY_LENGTH
            THEN [ok |-> FALSE, error |-> <<"Query is too short">>]
        ELSE IF TextLen(stripped) > MAX_QUERY_LENGTH
            THEN [ok |-> FALSE, error |-> <<"Query is too long (max 5000 characters)">>]
        ELSE IF _contains_harmful_content(stripped)
            THEN [ok |-> FALSE, error |-> <<"Query contains potentially harmful content">>]
        ELSE [ok |-> TRUE, error |-> None]

\* QueryValidator.sanitize_query: drop tags, collapse whitespace, strip.
sanitize_query(q) == Strip(CollapseSpaces(Remove(q, {TAG})))

\* r'\bcalculate\b' matches at position i.
KeywordAt(q, i) ==
    /\ q[i] = KW
    /\ (i = 1 \/ ~WordEnd(q[i - 1]))
    /\ (i = Len(q) \/ ~WordStart(q[i + 1]))

\* QueryValidator.is_calculation_query (q is a str).
is_calculation_query(q) ==
    \E i \in 1..Len(q) : q[i] = EXPR \/ KeywordAt(q, i)

\* A validate_and_sanitize_query that sanitizes without validating.
SanitizeWithoutValidating(q) ==
    [raised |-> FALSE, error |-> << >>, value |-> sanitize_query(q)]

\* validate_and_sanitize_query: the sanitized query, or ValidationError.
validate_and_sanitize_query(q) ==
    LET v == validate_query(q) IN
    IF ~v.ok THEN [raised |-> TRUE, error |-> v.error, value |-> << >>]
    ELSE [raised |-> FALSE, error |-> << >>, value |-> sanitize_query(q)]

\* ------------------------------------------------------------ fixed strings
LLM_APOLOGY ==
    <<"I apologize, but I encountered an error processing your request. Please try again.">>
CALC_APOLOGY ==
    <<"I couldn't perform that calculation. Please provide a valid mathematical expression.">>
FALLBACK == <<"I'm sorry, I couldn't generate a response.">>
GENERIC_FAILURE == <<"An error occurred while processing your request.">>
UNEXPECTED_FAILURE == <<"An unexpected error occurred. Please try again.">>

\* ------------------------------------------------------- external outcomes
\* The generation provider: raises (error or timeout), returns empty
\* content, or returns text.
LlmRaises == [raises |-> TRUE, content |-> << >>]
LlmReturns(text) == [raises |-> FALSE, content |-> text]
LlmOutcomes == {LlmRaises, LlmReturns(<< >>), LlmReturns(<<"Hello!">>)}

\* numexpr.evaluate(expression).item(): raises, or the value (its str()).
EvalOutcomes == {"raise", "4", "8.5"}

\* -------------------------------------------------------------------- nodes
\* An input_node that sanitizes before it validates.
InputNodeSanitizeFirst(s) ==
    IF ~Truthy(s.user_query)
        THEN [s EXCEPT !.error = <<"No user query provided">>]
    ELSE LET clean == sanitize_query(s.user_query)
             v == validate_query(clean) IN
        IF ~v.ok THEN [s EXCEPT !.user_query = clean, !.error = v.error]
        ELSE [s EXCEPT !.user_query = clean]

\* WorkflowNodes.input_node
input_node(s) ==
    IF ~Truthy(s.user_query)
        THEN [s EXCEPT !.error = <<"No user query provided">>]
    ELSE LET v == validate_query(s.user_query) IN
        IF ~v.ok THEN [s EXCEPT !.error = v.error]
        ELSE [s EXCEPT !.user_query = sanitize_query(s.user_query)]

\* decision_node raises (AttributeError on None.lower()) instead of returning.
decision_raises(s) == s.user_query = None

\* A decision_node that resets error while it classifies.
DecisionNodeClearsError(s) ==
    IF is_calculation_query(s.user_query)
        THEN [s EXCEPT !.query_type = "calculation", !.error = << >>]
        ELSE [s EXCEPT !.query_type = "text", !.error = << >>]

\* WorkflowNodes.decision_node
decision_node(s) ==
    IF is_calculation_query(s.user_query)
        THEN [s EXCEPT !.query_type = "calculation"]
        ELSE [s EXCEPT !.query_type = "text"]

\* WorkflowNodes._format_chat_history
RECURSIVE JoinLines(_)
JoinLines(h) ==
    IF h = << >> THEN << >>
    ELSE <<(IF Head(h).type = "user" THEN "User: " ELSE "Assistant: ")>>
         \o Head(h).content
         \o (IF Len(h) > 1 THEN <<"\n">> ELSE << >>)
         \o JoinLines(Tail(h))

_format_chat_history(history) ==
    IF history = << >> THEN <<"No previous conversation.">>
    ELSE JoinLines(LastN(history, LLM_CONTEXT))

\* text_prompt.format(user_query=..., chat_history=...)
TextPrompt(s) ==
    <<"Chat History:\n">> \o _format_chat_history(s.chat_history)
    \o <<"\n\nUser Query: ">> \o s.user_query \o <<"\n\nAssistant Response:">>

\* An llm_node that also stores the reply as calculation_result.
LlmNodeStoresResult(s, o) ==
    IF o.raises
        THEN [s EXCEPT !.error = <<"LLM error: ", "<exception>">>,
                       !.response = LLM_APOLOGY]
        ELSE [s EXCEPT !.response = o.content, !.calculation_result = o.content]

\* An llm_node whose except clause sets error only.
LlmNodeNoApology(s, o) ==
    IF o.raises
        THEN [s EXCEPT !.error = <<"LLM error: ", "<exception>">>]
        ELSE [s EXCEPT !.response = o.content]

\* WorkflowNodes.llm_node, o the provider's outcome.
llm_node(s, o) ==
    IF o.raises
        THEN [s EXCEPT !.error = <<"LLM error: ", "<exception>">>,
                       !.response = LLM_APOLOGY]
        ELSE [s EXCEPT !.response = o.content]

\* An _extract_math_expression without the fallback to the query.
ExtractWithoutFallback(query) == Strip(Remove(query, {KW}))

\* WorkflowNodes._extract_math_expression
_extract_math_expression(query) ==
    LET expression == Strip(Remove(query, {KW})) IN
    IF expression = << >> THEN query ELSE expression

\* A tool_node that replaces the query by the expression it extracted.
ToolNodeRewritesQuery(s, o) ==
    LET expression == _extract_math_expression(s.user_query) IN
    IF o = "raise"
        THEN [s EXCEPT !.error = <<"Calculation error: ", "<exception>">>,
                       !.response = CALC_APOLOGY,
                       !.user_query = expression]
        ELSE [s EXCEPT !.calculation_result = <<o>>,
                       !.response = <<"The result of ">> \o expression
                                    \o <<" is ">> \o <<o>>,
                       !.user_query = expression]

\* A tool_node that records a result although the evaluation raised.
ToolNodeResultOnFailure(s, o) ==
    IF o = "raise"
        THEN [s EXCEPT !.calculation_result = <<"nan">>,
                       !.error = <<"Calculation error: ", "<exception>">>,
                       !.response = CALC_APOLOGY]
        ELSE [s EXCEPT !.calculation_result = <<o>>,
                       !.response = <<"The result of ">>
                                    \o _extract_math_expression(s.user_query)
                                    \o <<" is ">> \o <<o>>]

\* WorkflowNodes.tool_node, o the evaluator's outcome.
tool_node(s, o) ==
    LET expression == _extract_math_expression(s.user_query) IN
    IF o = "raise"
        THEN [s EXCEPT !.error = <<"Calculation error: ", "<exception>">>,
                       !.response = CALC_APOLOGY]
        ELSE [s EXCEPT !.calculation_result = <<o>>,
                       !.response = <<"The result of ">> \o expression
                                    \o <<" is ">> \o <<o>>]

\* The two dicts memory_node appends, in order.
MemoryEntries(s) ==
    << [type |-> "user", content |-> s.user_query, query_type |-> s.query_type],
       [type |-> "assistant", content |-> s.response] >>

\* The list object after memory_node's two in-place appends.
MemoryAppended(s) == s.chat_history \o MemoryEntries(s)

\* A memory_node that truncates before it appends.
MemoryNodeTruncateFirst(s) ==
    [s EXCEPT !.chat_history = LastN(s.chat_history, MAX_HISTORY) \o MemoryEntries(s)]

\* WorkflowNodes.memory_node
memory_node(s) ==
    LET appended == MemoryAppended(s) IN
    IF Len(appended) > MAX_HISTORY
        THEN [s EXCEPT !.chat_history = LastN(appended, MAX_HISTORY)]
        ELSE [s EXCEPT !.chat_history = appended]

\* An output_node without the fallback.
OutputNodeNoFallback(s) == s

\* An output_node that ends the response with the dots it prints.
OutputNodeAddsDots(s) ==
    IF ~Truthy(s.response) THEN [s EXCEPT !.response = FALLBACK]
    ELSE [s EXCEPT !.response = @ \o <<"...">>]

\* WorkflowNodes.output_node
output_node(s) ==
    IF ~Truthy(s.response) THEN [s EXCEPT !.response = FALLBACK] ELSE s

\* -------------------------------------------------------------- the graph
START_NODE == "input_node"
END == "__end__"

\* A router whose key for a calculation is not in the path map.
RouteQueryShortKey(s) == IF s.query_type = "calculation" THEN "calc" ELSE s.query_type

\* ChatbotDAG._route_query
_route_query(s) == s.query_type

\* The path map with its two targets exchanged.
RouteMapSwapped(key) ==
    CASE key = "text" -> "tool_node"
      [] key = "calculation" -> "llm_node"
      [] OTHER -> "KeyError"

\* The path map of add_conditional_edges.
RouteMap(key) ==
    CASE key = "text" -> "llm_node"
      [] key = "calculation" -> "tool_node"
      [] OTHER -> "KeyError"

\* The edges without output_node -> END: the graph never reaches END.
EdgeWithoutEnd(node) ==
    CASE node = "input_node" -> "decision_node"
      [] node = "llm_node" -> "memory_node"
      [] node = "tool_node" -> "memory_node"
      [] node = "memory_node" -> "output_node"
      [] node = "output_node" -> "nowhere"

\* The unconditional edges of _build_dag.
Edge(node) ==
    CASE node = "input_node" -> "decision_node"
      [] node = "llm_node" -> "memory_node"
      [] node = "tool_node" -> "memory_node"
      [] node = "memory_node" -> "output_node"
      [] node = "output_node" -> END

\* The node the graph runs after `node` returned state s.
NextNode(node, s) ==
    IF node = "decision_node" THEN RouteMap(_route_query(s)) ELSE Edge(node)

\* process_query's initial_state.
InitialState(user_query, session_id, session_history) ==
    [user_query |-> user_query,
     session_id |-> session_id,
     query_type |-> "",
     response |-> << >>,
     calculation_result |-> << >>,
     error |-> << >>,
     chat_history |-> IF ListTruthy(session_history) THEN session_history ELSE << >>]

\* The exceptions the nodes and the router raise, by str(e).
ATTRIBUTE_ERROR == <<"'NoneType' object has no attribute 'lower'">>
KeyError(key) == <<"KeyError: ", key>>

\* `except KeyError`: a clause that names one exception class only.
ExceptKeyErrorOnly(e) == e # << >> /\ e[1] = "KeyError: "

\* `except Exception`: every exception graph.invoke raises is caught.
ExceptClause(e) == TRUE

\* process_query's return value after graph.invoke returned final_state.
SuccessResult(final_state) ==
    [success |-> TRUE,
     response |-> final_state.response,
     query_type |-> final_state.query_type,
     chat_history |-> final_state.chat_history,
     calculation_result |-> final_state.calculation_result,
     error |-> final_state.error]

\* The except clause returning the initial state's response.
FailureResultNoResponse(session_history, e) ==
    [success |-> FALSE,
     response |-> << >>,
     query_type |-> "",
     chat_history |-> IF ListTruthy(session_history) THEN session_history ELSE << >>,
     calculation_result |-> << >>,
     error |-> e]

\* process_query's return value in its except clause; session_history is
\* the caller's list object as it is then.
FailureResult(session_history, e) ==
    [success |-> FALSE,
     response |-> GENERIC_FAILURE,
     query_type |-> "",
     chat_history |-> IF ListTruthy(session_history) THEN session_history ELSE << >>,
     calculation_result |-> << >>,
     error |-> e]

\* ------------------------------------------------------------------ inputs
Sessions == {"s1", "s2"}

RECURSIVE SeqsUpTo(_, _)
SeqsUpTo(S, n) ==
    IF n = 0 THEN {<< >>}
    ELSE LET shorter == SeqsUpTo(S, n - 1) IN
         shorter \cup {Append(t, x) : t \in {u \in shorter : Len(u) = n - 1}, x \in S}

\* The queries a caller passes to process_query, None for a missing one.
QueryArgs == SeqsUpTo(Lexemes, MaxQueryLen) \cup {None}

\* An earlier exchange's entry, distinguishable by its position.
OldEntry(i) ==
    IF i % 2 = 1
        THEN [type |-> "user", content |-> <<"old ", ToString(i)>>, query_type |-> "text"]
        ELSE [type |-> "assistant", content |-> <<"old ", ToString(i)>>]

OldHistory(n) == [i \in 1..n |-> OldEntry(i)]

\* The histories a caller passes to process_query, NoneList for the default.
HistoryArgs ==
    {OldHistory(n) : n \in (0..MaxShort) \cup ((MAX_HISTORY - 2)..(MAX_HISTORY + MaxOver))}
    \cup {NoneList}

\* ------------------------------------------------- the graph, run in one go
\* What one node does to a run r of graph.invoke: the state, the caller's
\* list object (appended to in place while state.chat_history is that
\* object), the nodes run, the prompt sent and the external outcomes.
NodeApply(node, r, lo, eo) ==
    CASE node = "input_node" ->
            [r EXCEPT !.state = input_node(r.state)]
      [] node = "decision_node" ->
            [r EXCEPT !.state = decision_node(r.state)]
      [] node = "llm_node" ->
            [r EXCEPT !.state = llm_node(r.state, lo),
                      !.prompt = TextPrompt(r.state),
                      !.ext.llm = IF lo.raises THEN "raised" ELSE "returned"]
      [] node = "tool_node" ->
            [r EXCEPT !.state = tool_node(r.state, eo),
                      !.ext.eval = IF eo = "raise" THEN "raised" ELSE "returned"]
      [] node = "memory_node" ->
            [r EXCEPT !.state = memory_node(r.state),
                      !.session_history =
                          IF r.shared THEN MemoryAppended(r.state) ELSE @,
                      !.shared = @ /\ Len(MemoryAppended(r.state)) <= MAX_HISTORY]
      [] node = "output_node" ->
            [r EXCEPT !.state = output_node(r.state)]

\* graph.invoke from `node` on: the run when the graph reaches END or raises.
RECURSIVE RunFrom(_, _, _, _)
RunFrom(node, r, lo, eo) ==
    IF node = END THEN r
    ELSE IF node = "decision_node" /\ decision_raises(r.state)
        THEN [r EXCEPT !.raised = TRUE, !.exc = ATTRIBUTE_ERROR,
                       !.trace = Append(@, node)]
    ELSE LET r2 == [NodeApply(node, r, lo, eo) EXCEPT !.trace = Append(@, node)]
             next == NextNode(node, r2.state) IN
         IF next = "KeyError"
             THEN [r2 EXCEPT !.raised = TRUE, !.exc = KeyError(_route_query(r2.state))]
             ELSE RunFrom(next, r2, lo, eo)

\* ChatbotDAG.process_query in one go: the run and the dict returned (or the
\* exception propagated), lo and eo the provider's and the evaluator's outcome.
process_query(user_query, session_id, history, lo, eo) ==
    LET r == RunFrom(START_NODE,
                     [state |-> InitialState(user_query, session_id, history),
                      session_history |-> history,
                      shared |-> ListTruthy(history),
                      trace |-> << >>,
                      prompt |-> << >>,
                      exc |-> << >>,
                      raised |-> FALSE,
                      ext |-> [llm |-> "not called", eval |-> "not called"]],
                     lo, eo) IN
    [run |-> r,
     propagated |-> r.raised /\ ~ExceptClause(r.exc),
     result |-> IF r.raised THEN FailureResult(r.session_history, r.exc)
                ELSE SuccessResult(r.state)]

\* ------------------------------------------------------------ session cache
\* An expiry test that already fails at the window's end.
IsExpiredAtWindow(timestamp, t) == t - timestamp >= CACHE_EXPIRATION_MINUTES

\* CacheService._is_expired, t the time datetime.now() returns.
_is_expired(timestamp, t) == t - timestamp > CACHE_EXPIRATION_MINUTES

\* del CacheService._session_cache[session_id]
DropKey(c, sid) == [k \in DOMAIN c \ {sid} |-> c[k]]

\* CacheService.clear_session: the cache afterwards and the bool returned.
Cache_clear_session(c, sid) ==
    IF sid \in DOMAIN c
        THEN [cache |-> DropKey(c, sid), cleared |-> TRUE]
        ELSE [cache |-> c, cleared |-> FALSE]

\* A get that restarts the window of the entry it returns.
CacheGetTouches(c, sid, t) ==
    IF sid \notin DOMAIN c
        THEN [history |-> << >>, cache |-> c, cached_object |-> FALSE]
    ELSE IF _is_expired(c[sid].timestamp, t)
        THEN [history |-> << >>, cache |-> Cache_clear_session(c, sid).cache,
              cached_object |-> FALSE]
    ELSE [history |-> c[sid].history,
          cache |-> [c EXCEPT ![sid].timestamp = t],
          cached_object |-> TRUE]

\* A get that reports an expired entry as a miss and keeps it.
CacheGetKeepsExpired(c, sid, t) ==
    IF sid \notin DOMAIN c
        THEN [history |-> << >>, cache |-> c, cached_object |-> FALSE]
    ELSE IF _is_expired(c[sid].timestamp, t)
        THEN [history |-> << >>, cache |-> c, cached_object |-> FALSE]
    ELSE [history |-> c[sid].history, cache |-> c, cached_object |-> TRUE]

\* CacheService.get_session_history: the list returned, the cache
\* afterwards, and whether the list returned is the cached list object.
Cache_get_session_history(c, sid, t) ==
    IF sid \notin DOMAIN c
        THEN [history |-> << >>, cache |-> c, cached_object |-> FALSE]
    ELSE IF _is_expired(c[sid].timestamp, t)
        THEN [history |-> << >>, cache |-> Cache_clear_session(c, sid).cache,
              cached_object |-> FALSE]
    ELSE [history |-> c[sid].history, cache |-> c, cached_object |-> TRUE]

\* A save that keeps the entry a session already has (dict.setdefault).
CacheSaveKeepsExisting(c, sid, history, t) ==
    c @@ (sid :> [history |-> history, timestamp |-> t])

\* CacheService.save_session_history
Cache_save_session_history(c, sid, history, t) ==
    (sid :> [history |-> history, timestamp |-> t]) @@ c

\* CacheService.clear_all_sessions: the cache afterwards and the int returned.
Cache_clear_all_sessions(c) ==
    [cache |-> << >>, count |-> Cardinality(DOMAIN c)]

\* cleanup_expired_sessions' loop: clear_session for each id of the list.
RECURSIVE ClearEach(_, _)
ClearEach(c, ids) ==
    IF ids = {} THEN c
    ELSE LET sid == CHOOSE k \in ids : TRUE IN
         ClearEach(Cache_clear_session(c, sid).cache, ids \ {sid})

\* A sweep that clears every session and reports the expired ones.
CacheCleanupClearsAll(c, t) ==
    LET expired_sessions == {sid \in DOMAIN c : _is_expired(c[sid].timestamp, t)} IN
    [cache |-> ClearEach(c, DOMAIN c), count |-> Cardinality(expired_sessions)]

\* CacheService.cleanup_expired_sessions at time t: the cache afterwards and
\* the int returned (the ids of a dict are distinct, so the list's length
\* is the set's size).
Cache_cleanup_expired_sessions(c, t) ==
    LET expired_sessions == {sid \in DOMAIN c : _is_expired(c[sid].timestamp, t)} IN
    [cache |-> ClearEach(c, expired_sessions), count |-> Cardinality(expired_sessions)]

\* CacheService.get_session_count
get_session_count(c) == Cardinality(DOMAIN c)

\* A session_exists that removes the expired entry it finds.
SessionExistsEvicts(c, sid, t) ==
    IF sid \notin DOMAIN c THEN [cache |-> c, exists |-> FALSE]
    ELSE IF _is_expired(c[sid].timestamp, t)
        THEN [cache |-> Cache_clear_session(c, sid).cache, exists |-> FALSE]
        ELSE [cache |-> c, exists |-> TRUE]

\* CacheService.session_exists at time t: the cache afterwards and the bool
\* returned.
session_exists(c, sid, t) ==
    IF sid \notin DOMAIN c THEN [cache |-> c, exists |-> FALSE]
    ELSE [cache |-> c, exists |-> ~_is_expired(c[sid].timestamp, t)]

\* ------------------------------------------------------------ message store
\* ChatMessage.USER, ChatMessage.BOT and a NULL query_type.
USER == "user"
BOT == "bot"
NULL == "<None>"

\* MessageService.save_message: ChatMessage.objects.create at time t.
save_message(rows, sid, message, message_type, query_type, t) ==
    Append(rows, [session_id |-> sid, message |-> message,
                  message_type |-> message_type, query_type |-> query_type,
                  timestamp |-> t])

\* The outcomes of MessageService.save_conversation: both rows saved, or the
\* first or the second create() raises.
DbOutcomes == {"ok", "raise_user", "raise_bot"}

\* MessageService.save_conversation with outcome db: the rows afterwards.
save_conversation(rows, sid, user_message, bot_response, query_type, t, db) ==
    IF db = "raise_user" THEN rows
    ELSE LET saved == save_message(rows, sid, user_message, USER, query_type, t) IN
         IF db = "raise_bot" THEN saved
         ELSE save_message(saved, sid, bot_response, BOT, NULL, t)

\* MessageService.get_session_history(session_id, limit): the session's rows
\* ordered by timestamp, sliced [:limit].
Message_get_session_history(rows, sid, limit) ==
    LET OfSession(row) == row.session_id = sid IN
    FirstN(SelectSeq(rows, OfSession), limit)

\* MessageService.format_history_for_api
format_history_for_api(msgs) ==
    [i \in 1..Len(msgs) |->
        [type |-> msgs[i].message_type, content |-> msgs[i].message,
         query_type |-> msgs[i].query_type, timestamp |-> msgs[i].timestamp]]

\* ---------------------------------------------------------- chatbot service
\* ChatbotService._get_conversation_history: the list returned, the cache
\* afterwards, whether the cache holds the list object returned, and
\* whether the store was queried.
_get_conversation_history(c, rows, sid, t) ==
    LET got == Cache_get_session_history(c, sid, t) IN
    IF got.history # << >>
        THEN [history |-> got.history, cache |-> got.cache, in_cache |-> TRUE,
              store_read |-> FALSE]
    ELSE LET history == format_history_for_api(
                            Message_get_session_history(rows, sid, DB_HISTORY_LIMIT)) IN
         IF history # << >>
             THEN [history |-> history,
                   cache |-> Cache_save_session_history(got.cache, sid, history, t),
                   in_cache |-> TRUE, store_read |-> TRUE]
             ELSE [history |-> history, cache |-> got.cache, in_cache |-> FALSE,
                   store_read |-> TRUE]

\* A get_session_history that asks the store before it looks at the cache.
ServiceHistoryStoreFirst(c, rows, sid, limit, t) ==
    LET got == Cache_get_session_history(c, sid, t)
        history == format_history_for_api(
                       Message_get_session_history(rows, sid, limit)) IN
    IF history # << >>
        THEN [cache |-> Cache_save_session_history(got.cache, sid, history, t),
              store_read |-> TRUE,
              returned |-> [success |-> TRUE, session_id |-> sid,
                            history |-> history, source |-> "database"]]
        ELSE [cache |-> got.cache,
              store_read |-> TRUE,
              returned |-> [success |-> TRUE, session_id |-> sid,
                            history |-> FirstN(got.history, limit),
                            source |-> "cache"]]

\* ChatbotService.get_session_history(session_id, limit): the dict returned,
\* the cache afterwards, and whether the store was queried.
Service_get_session_history(c, rows, sid, limit, t) ==
    LET got == Cache_get_session_history(c, sid, t) IN
    IF got.history # << >>
        THEN [cache |-> got.cache,
              store_read |-> FALSE,
              returned |-> [success |-> TRUE, session_id |-> sid,
                            history |-> FirstN(got.history, limit),
                            source |-> "cache"]]
    ELSE LET history == format_history_for_api(
                            Message_get_session_history(rows, sid, limit)) IN
         [cache |-> IF history # << >>
                        THEN Cache_save_session_history(got.cache, sid, history, t)
                        ELSE got.cache,
          store_read |-> TRUE,
          returned |-> [success |-> TRUE, session_id |-> sid,
                        history |-> history, source |-> "database"]]

\* str(e) of the ConfigError Config.get_openai_api_key raises.
CONFIG_ERROR ==
    <<"OPENAI_API_KEY not found in environment variables or settings. ",
      "Please set it in your .env file.">>

\* _chatbot_dag_instance = None
NoDag == 0

\* get_chatbot_dag() called by one thread: instance is what the global
\* holds, built the number of ChatbotDAG objects constructed so far, and
\* build_ok whether ChatbotDAG() returns (it raises when the provider
\* cannot be configured).  An instance is named by its construction number.
get_chatbot_dag(instance, built, build_ok) ==
    IF instance # NoDag
        THEN [raised |-> FALSE, instance |-> instance, constructed |-> built]
    ELSE IF ~build_ok
        THEN [raised |-> TRUE, instance |-> NoDag, constructed |-> built]
    ELSE [raised |-> FALSE, instance |-> built + 1, constructed |-> built + 1]

\* The ids uuid.uuid4() yields, in order.
UuidPool == <<"session-u1", "session-u2", "session-u3">>

\* No session_id passed (None or '').
NoSession == ""

\* process_chat_message's return for a ValidationError.
InvalidQueryResult(session_id, e) ==
    [success |-> FALSE,
     session_id |-> session_id,
     response |-> <<"Invalid query: ">> \o e,
     query_type |-> "",
     error |-> e]

\* process_chat_message's return when process_query reports a failure.
EngineFailureResult(session_id, res) ==
    [success |-> FALSE,
     session_id |-> session_id,
     response |-> res.response,
     query_type |-> res.query_type,
     error |-> res.error]

\* process_chat_message's return on success.
ChatSuccessResult(session_id, res) ==
    [success |-> TRUE,
     session_id |-> session_id,
     response |-> res.response,
     query_type |-> res.query_type,
     calculation_result |-> res.calculation_result,
     error |-> << >>]

\* process_chat_message's return in its outer except clause.
UnexpectedFailureResult(session_id, e) ==
    [success |-> FALSE,
     session_id |-> session_id,
     response |-> UNEXPECTED_FAILURE,
     query_type |-> "",
     error |-> e]

\* -------------------------------------------------------------------- state
VARIABLES
    pc,             \* where the process_query call is: a node name, or
                    \* "idle", END, "raised", "returned", "propagated"
    state,          \* the GraphState the graph threads through its nodes
    args,           \* process_query's arguments as the caller passed them
    session_history,\* the caller's list object, as it is now
    shared,         \* state.chat_history is the caller's list object
    trace,          \* the nodes run so far in this call, in order
    prompt,         \* the last prompt sent to the generation provider
    exc,            \* str(e) of the exception graph.invoke raised
    ext,            \* what the provider and the evaluator did in this call
    result,         \* what process_query returned
    session_cache,  \* CacheService._session_cache
    messages,       \* the ChatMessage rows, in timestamp order
    now,            \* the time datetime.now() returns, in minutes
    uuids,          \* how many session ids uuid.uuid4() has yielded
    chat_result,    \* what process_chat_message returned
    calls,          \* how many process_chat_message calls were made
    log,            \* the exchanges that completed with success, in order
    cache_call,     \* the last call a caller made to CacheService
    last_put,       \* per session, the last save_session_history call a
                    \* caller made and no clear_session or
                    \* clear_all_sessions call has followed
    svc_call,       \* the last call a client made to ChatbotService
    dag_instance,   \* _chatbot_dag_instance
    constructed,    \* how many ChatbotDAG objects were constructed
    threads,        \* per thread, where it is in its call and its locals
    heap,           \* the list objects threads and the cache hold
    cache_obj       \* per session, the list object its cache entry holds

evars == <<pc, state, args, session_history, shared, trace, prompt, exc, ext, result>>
dvars == <<svc_call, dag_instance, constructed>>
tvars == <<threads, heap, cache_obj>>
svars == <<session_cache, messages, now, uuids, chat_result, calls, log,
           cache_call, last_put, dvars, tvars>>
vars == <<evars, svars>>

\* The threads that serve requests.
Threads == {"t1", "t2"}
IdleThread == [pc |-> "idle"]
NoObject == 0

NotCalled == [llm |-> "not called", eval |-> "not called"]

NoArgs == [user_query |-> None, session_id |-> "", session_history |-> NoneList]
NoResult == [pending |-> TRUE]

NoCall == [op |-> "none"]
NoEntry == [absent |-> TRUE]
NoPut == [absent |-> TRUE]

Init ==
    /\ pc = "idle"
    /\ state = InitialState(None, "", NoneList)
    /\ args = NoArgs
    /\ session_history = NoneList
    /\ shared = FALSE
    /\ trace = << >>
    /\ prompt = << >>
    /\ exc = << >>
    /\ ext = NotCalled
    /\ result = NoResult
    /\ session_cache = << >>
    /\ messages = << >>
    /\ now = 0
    /\ uuids = 0
    /\ chat_result = NoResult
    /\ calls = 0
    /\ log = << >>
    /\ cache_call = NoCall
    /\ last_put = [sid \in Sessions |-> NoPut]
    /\ svc_call = NoCall
    /\ dag_instance = NoDag
    /\ constructed = 0
    /\ threads = [t \in Threads |-> IdleThread]
    /\ heap = << >>
    /\ cache_obj = [sid \in Sessions |-> NoObject]

\* A caller calls process_query(user_query, session_id, session_history);
\* graph.invoke starts at the entry point.
ProcessQueryCall ==
    /\ pc = "idle"
    /\ \E q \in QueryArgs, sid \in Sessions, h \in HistoryArgs :
        /\ args' = [user_query |-> q, session_id |-> sid, session_history |-> h]
        /\ session_history' = h
        /\ state' = InitialState(q, sid, h)
        /\ shared' = ListTruthy(h)
    /\ pc' = START_NODE
    /\ trace' = << >>
    /\ prompt' = << >>
    /\ exc' = << >>
    /\ ext' = NotCalled
    /\ result' = NoResult
    /\ UNCHANGED svars

\* The graph runs `node`, which returns s2, and follows its edge.
Step(node, s2) ==
    /\ state' = s2
    /\ trace' = Append(trace, node)
    /\ LET next == NextNode(node, s2) IN
        IF next = "KeyError"
            THEN pc' = "raised" /\ exc' = KeyError(_route_query(s2))
            ELSE pc' = next /\ exc' = exc

InputNode ==
    /\ pc = "input_node"
    /\ Step("input_node", input_node(state))
    /\ UNCHANGED <<args, session_history, shared, prompt, ext, result>>
    /\ UNCHANGED svars

DecisionNode ==
    /\ pc = "decision_node"
    /\ IF decision_raises(state)
        THEN /\ pc' = "raised"
             /\ exc' = ATTRIBUTE_ERROR
             /\ trace' = Append(trace, "decision_node")
             /\ UNCHANGED state
        ELSE Step("decision_node", decision_node(state))
    /\ UNCHANGED <<args, session_history, shared, prompt, ext, result>>
    /\ UNCHANGED svars

LlmNode ==
    /\ pc = "llm_node"
    /\ \E o \in LlmOutcomes :
        /\ Step("llm_node", llm_node(state, o))
        /\ ext' = [ext EXCEPT !.llm = IF o.raises THEN "raised" ELSE "returned"]
    /\ prompt' = TextPrompt(state)
    /\ UNCHANGED <<args, session_history, shared, result>>
    /\ UNCHANGED svars

ToolNode ==
    /\ pc = "tool_node"
    /\ \E o \in EvalOutcomes :
        /\ Step("tool_node", tool_node(state, o))
        /\ ext' = [ext EXCEPT !.eval = IF o = "raise" THEN "raised" ELSE "returned"]
    /\ UNCHANGED <<args, session_history, shared, prompt, result>>
    /\ UNCHANGED svars

\* memory_node appends in place, so the caller's list object changes while
\* state.chat_history is that object; the slice makes a new list.
MemoryNode ==
    /\ pc = "memory_node"
    /\ Step("memory_node", memory_node(state))
    /\ session_history' = IF shared THEN MemoryAppended(state) ELSE session_history
    /\ shared' = (shared /\ Len(MemoryAppended(state)) <= MAX_HISTORY)
    /\ UNCHANGED <<args, prompt, ext, result>>
    /\ UNCHANGED svars

OutputNode ==
    /\ pc = "output_node"
    /\ Step("output_node", output_node(state))
    /\ UNCHANGED <<args, session_history, shared, prompt, ext, result>>
    /\ UNCHANGED svars

\* graph.invoke returned: process_query returns the success dict.
ProcessQueryReturn ==
    /\ pc = END
    /\ result' = SuccessResult(state)
    /\ pc' = "returned"
    /\ UNCHANGED <<state, args, session_history, shared, trace, prompt, exc, ext>>
    /\ UNCHANGED svars

\* graph.invoke raised: process_query's except clause returns the failure
\* dict, and an exception the clause does not name propagates to the caller.
ProcessQueryExcept ==
    /\ pc = "raised"
    /\ IF ExceptClause(exc)
        THEN /\ result' = FailureResult(session_history, exc)
             /\ pc' = "returned"
        ELSE /\ result' = result
             /\ pc' = "propagated"
    /\ UNCHANGED <<state, args, session_history, shared, trace, prompt, exc, ext>>
    /\ UNCHANGED svars

Run ==
    \/ InputNode
    \/ DecisionNode
    \/ LlmNode
    \/ ToolNode
    \/ MemoryNode
    \/ OutputNode
    \/ ProcessQueryReturn
    \/ ProcessQueryExcept

Next == ProcessQueryCall \/ Run

Spec == Init /\ [][Next]_vars

\* The provider's call returns or fails, and the interpreter keeps running
\* the synchronous call.
LiveSpec == Spec /\ WF_vars(Run)

\* ---------------------------------------------------------- faults in a run
\* str(e) of the exception a print() raises when stdout is closed or cannot
\* encode the text.
PRINT_ERROR == <<"[Errno 32] Broken pipe">>

\* A node's print() raises outside any try block: the banner every node
\* prints first (the node has done nothing yet), or, with late, the lines
\* memory_node prints after its two in-place appends.  graph.invoke raises.
PrintFault ==
    /\ pc \in {"input_node", "decision_node", "llm_node", "tool_node",
               "memory_node", "output_node"}
    /\ \E late \in BOOLEAN :
        /\ late => pc = "memory_node"
        /\ session_history' = IF late /\ shared THEN MemoryAppended(state)
                                                ELSE session_history
    /\ pc' = "raised"
    /\ exc' = PRINT_ERROR
    /\ trace' = Append(trace, pc)
    /\ UNCHANGED <<state, args, shared, prompt, ext, result>>
    /\ UNCHANGED svars

FaultNext == Next \/ PrintFault

\* process_query with a stdout that can fail.
FaultSpec == Init /\ [][FaultNext]_vars

\* ----------------------------------------------------- the service's actions
\* The engine's variables after process_query ran in one go.
EngineRan(q, sid, history, pq) ==
    /\ pc' = IF pq.propagated THEN "propagated" ELSE "returned"
    /\ args' = [user_query |-> q, session_id |-> sid, session_history |-> history]
    /\ state' = pq.run.state
    /\ session_history' = pq.run.session_history
    /\ shared' = pq.run.shared
    /\ trace' = pq.run.trace
    /\ prompt' = pq.run.prompt
    /\ exc' = pq.run.exc
    /\ ext' = pq.run.ext
    /\ result' = IF pq.propagated THEN NoResult ELSE pq.result

\* A process_chat_message for which a failed save_conversation is fatal: it
\* answers with the unexpected-error result and leaves the cache alone.
ChatExchangeStoreFatal(query, sid, hist, lo, eo, db) ==
    \E pq \in {process_query(query, sid, hist.history, lo, eo)} :
    LET cache == IF hist.in_cache
                     THEN [hist.cache EXCEPT
                              ![sid].history = pq.run.session_history]
                     ELSE hist.cache
    IN
    /\ EngineRan(query, sid, hist.history, pq)
    /\ IF pq.propagated
        THEN /\ chat_result' = UnexpectedFailureResult(sid, pq.run.exc)
             /\ session_cache' = cache
             /\ UNCHANGED <<messages, log>>
        ELSE IF ~pq.result.success
        THEN /\ chat_result' = EngineFailureResult(sid, pq.result)
             /\ session_cache' = cache
             /\ UNCHANGED <<messages, log>>
        ELSE IF db # "ok"
        THEN /\ messages' = save_conversation(
                    messages, sid, query, pq.result.response,
                    pq.result.query_type, now, db)
             /\ chat_result' = UnexpectedFailureResult(sid, <<"<exception>">>)
             /\ session_cache' = cache
             /\ UNCHANGED log
        ELSE /\ messages' = save_conversation(
                    messages, sid, query, pq.result.response,
                    pq.result.query_type, now, db)
             /\ session_cache' = Cache_save_session_history(
                    cache, sid, pq.result.chat_history, now)
             /\ chat_result' = ChatSuccessResult(sid, pq.result)
             /\ log' = Append(log, [session_id |-> sid,
                                    query |-> query,
                                    response |-> pq.result.response])

\* process_chat_message once it has the history and the engine: query is
\* the sanitized query, hist what _get_conversation_history returned.
ChatExchange(query, sid, hist, lo, eo, db) ==
    \E pq \in {process_query(query, sid, hist.history, lo, eo)} :
    \* the cached list object is the one the engine appended to
    LET cache == IF hist.in_cache
                     THEN [hist.cache EXCEPT
                              ![sid].history = pq.run.session_history]
                     ELSE hist.cache
    IN
    /\ EngineRan(query, sid, hist.history, pq)
    /\ IF pq.propagated
        THEN /\ chat_result' = UnexpectedFailureResult(sid, pq.run.exc)
             /\ session_cache' = cache
             /\ UNCHANGED <<messages, log>>
        ELSE IF ~pq.result.success
        THEN /\ chat_result' = EngineFailureResult(sid, pq.result)
             /\ session_cache' = cache
             /\ UNCHANGED <<messages, log>>
        ELSE /\ messages' = save_conversation(
                    messages, sid, query, pq.result.response,
                    pq.result.query_type, now, db)
             /\ session_cache' = Cache_save_session_history(
                    cache, sid, pq.result.chat_history, now)
             /\ chat_result' = ChatSuccessResult(sid, pq.result)
             /\ log' = Append(log, [session_id |-> sid,
                                    query |-> query,
                                    response |-> pq.result.response])

\* The record of a process_chat_message call: the query passed, the session
\* id used, whether the lookup queried the store, the history the lookup
\* returned, whether ChatbotDAG() raised and whether process_query was called.
ChatCall(user_query, sid, store_read, history, build_failed, engine_invoked) ==
    [op |-> "process_chat_message", user_query |-> user_query,
     session_id |-> sid, store_read |-> store_read, history |-> history,
     build_failed |-> build_failed, engine_invoked |-> engine_invoked]

\* ChatbotService.process_chat_message(user_query, session_id), with the
\* provider's outcome lo, the evaluator's eo, save_conversation's db,
\* read_ok: the store answers the history query, and build_ok: ChatbotDAG()
\* returns.
ChatMessage(user_query, session_id, lo, eo, db, read_ok, build_ok) ==
    LET v == validate_and_sanitize_query(user_query) IN
    /\ pc \in {"idle", "returned"}
    /\ session_id = NoSession => uuids < Len(UuidPool)
    /\ calls' = calls + 1
    /\ UNCHANGED <<cache_call, last_put, tvars>>
    /\ IF v.raised
        THEN /\ chat_result' = InvalidQueryResult(session_id, v.error)
             /\ svc_call' = ChatCall(user_query, session_id, FALSE, << >>, FALSE, FALSE)
             /\ UNCHANGED <<evars, session_cache, messages, now, uuids, log,
                            dag_instance, constructed>>
        ELSE LET sid == IF session_id = NoSession THEN UuidPool[uuids + 1] ELSE session_id
                 got == Cache_get_session_history(session_cache, sid, now)
                 hist == _get_conversation_history(session_cache, messages, sid, now)
             IN
             /\ uuids' = IF session_id = NoSession THEN uuids + 1 ELSE uuids
             /\ now' = now
             /\ IF got.history = << >> /\ ~read_ok
                 THEN /\ chat_result' = UnexpectedFailureResult(sid, <<"<exception>">>)
                      /\ session_cache' = got.cache
                      /\ svc_call' = ChatCall(user_query, sid, TRUE, << >>, FALSE, FALSE)
                      /\ UNCHANGED <<evars, messages, log, dag_instance, constructed>>
                 ELSE \E dag \in {get_chatbot_dag(dag_instance, constructed, build_ok)} :
                      /\ dag_instance' = dag.instance
                      /\ constructed' = dag.constructed
                      /\ svc_call' = ChatCall(user_query, sid, hist.store_read,
                                              hist.history, dag.raised, ~dag.raised)
                      /\ IF dag.raised
                          THEN /\ chat_result' = UnexpectedFailureResult(sid, CONFIG_ERROR)
                               /\ session_cache' = hist.cache
                               /\ UNCHANGED <<evars, messages, log>>
                          ELSE ChatExchange(v.value, sid, hist, lo, eo, db)

\* The queries the service's callers send: empty, text, a calculation,
\* markup only, denylisted, oversized.
ChatQueries == {<< >>, <<WORD>>, <<EXPR>>, <<TAG>>, <<JS>>, <<BIG, WORD>>}

\* The session ids the service's callers send.
ChatSessions == {"s1", NoSession}

\* A call's inputs, the ones the call does not read fixed: a query that
\* fails validation reaches neither the store nor the engine, a text query
\* does not reach the evaluator, a calculation does not reach the provider.
ChatInputs ==
    LET valid(q) == ~validate_and_sanitize_query(q).raised
        calc(q) == is_calculation_query(sanitize_query(q)) IN
    {i \in [q : ChatQueries, lo : LlmOutcomes, eo : EvalOutcomes,
            db : DbOutcomes, read_ok : BOOLEAN, build_ok : BOOLEAN] :
        /\ ~valid(i.q) => /\ i.lo = LlmRaises /\ i.eo = "raise" /\ i.db = "ok"
                          /\ i.read_ok /\ i.build_ok
        /\ ~i.build_ok => i.lo = LlmRaises /\ i.eo = "raise" /\ i.db = "ok"
        /\ ~i.read_ok => i.build_ok
        /\ (valid(i.q) /\ calc(i.q)) => i.lo = LlmRaises
        /\ (valid(i.q) /\ ~calc(i.q)) => i.eo = "raise"
        /\ ~i.read_ok => i.lo = LlmRaises /\ i.eo = "raise" /\ i.db = "ok"
        /\ i.db # "ok" => i.lo # LlmReturns(<< >>) /\ i.eo # "8.5"}

\* A client calls process_chat_message.
ProcessChatMessage ==
    /\ calls < MaxChats
    /\ \E i \in ChatInputs, sid \in ChatSessions :
            ChatMessage(i.q, sid, i.lo, i.eo, i.db, i.read_ok, i.build_ok)

\* The limits the history endpoint's callers pass.
HistoryLimits == {1, DB_HISTORY_LIMIT}

\* A client calls ChatbotService.get_session_history(sid, limit); read_ok:
\* the store answers the history query.
GetSessionHistory ==
    /\ \E sid \in {"s1", UuidPool[1]}, limit \in HistoryLimits, read_ok \in BOOLEAN :
        \E got \in {Service_get_session_history(session_cache, messages, sid, limit, now)} :
            IF got.store_read /\ ~read_ok
                THEN /\ session_cache' =
                            Cache_get_session_history(session_cache, sid, now).cache
                     /\ svc_call' = [op |-> "get_session_history", session_id |-> sid,
                                      limit |-> limit, store_read |-> TRUE,
                                      raised |-> TRUE, returned |-> NoResult]
                ELSE /\ session_cache' = got.cache
                     /\ svc_call' = [op |-> "get_session_history", session_id |-> sid,
                                      limit |-> limit, store_read |-> got.store_read,
                                      raised |-> FALSE, returned |-> got.returned]
    /\ UNCHANGED <<evars, messages, now, uuids, chat_result, calls, log,
                   cache_call, last_put, dag_instance, constructed, tvars>>

\* A caller calls process_query itself, in one go.  process_query reads and
\* writes nothing of the service, so it is called before the service is.
ProcessQueryDirect ==
    /\ pc = "idle"
    /\ calls = 0
    /\ \E q \in {None, <<KW>>}, sid \in Sessions,
          h \in {NoneList, OldHistory(MAX_HISTORY - 1)},
          lo \in LlmOutcomes, eo \in EvalOutcomes :
          \E pq \in {process_query(q, sid, h, lo, eo)} :
            EngineRan(q, sid, h, pq)
    /\ UNCHANGED svars

\* Time passes: a full expiration window, or a minute more.
Advance ==
    /\ \E d \in {CACHE_EXPIRATION_MINUTES, CACHE_EXPIRATION_MINUTES + 1} :
        /\ now + d <= MaxNow
        /\ now' = now + d
    /\ UNCHANGED <<evars, session_cache, messages, uuids, chat_result, calls, log>>
    /\ UNCHANGED <<cache_call, last_put, dvars, tvars>>

ChatNext == ProcessChatMessage \/ ProcessQueryDirect \/ Advance

ChatSpec == Init /\ [][ChatNext]_vars

\* One session's conversation: a client sends a text query again and again,
\* the provider answers each with a different text, the store works.
SessionExchange ==
    /\ calls < MaxExchanges
    /\ ChatMessage(<<WORD>>, "s1", LlmReturns(<<"Hello! ", ToString(calls + 1)>>),
                   "4", "ok", TRUE, TRUE)

SessionNext == SessionExchange \/ Advance

SessionSpec == Init /\ [][SessionNext]_vars

\* A client sends a text query, for a session it names or a new one.
HistoryChat ==
    /\ calls < MaxChats
    /\ \E sid \in ChatSessions, lo \in LlmOutcomes, db \in DbOutcomes,
          read_ok \in BOOLEAN, build_ok \in BOOLEAN :
            ChatMessage(<<WORD>>, sid, lo, "raise", db, read_ok, build_ok)

HistoryNext == HistoryChat \/ GetSessionHistory \/ Advance

\* Clients that send queries and read the history back.
HistorySpec == Init /\ [][HistoryNext]_vars

\* ------------------------------------------------------- the cache's callers
\* The histories a caller saves.
CacheHistories == {<< >>, OldHistory(1), OldHistory(2)}

\* The entry session_id has in the cache, if any.
Found(sid) == IF sid \in DOMAIN session_cache THEN session_cache[sid] ELSE NoEntry

\* The record of a call: the entry its session had when it was made, the
\* time, and what it returned (for a save, the history passed).
Call(op, sid, returned) ==
    [op |-> op, session_id |-> sid, found |-> Found(sid), at |-> now,
     returned |-> returned]

CacheFrame ==
    UNCHANGED <<evars, messages, now, uuids, chat_result, calls, log, dvars, tvars>>

\* CacheService.get_session_history(sid)
CacheGet ==
    /\ \E sid \in Sessions :
        \E got \in {Cache_get_session_history(session_cache, sid, now)} :
            /\ session_cache' = got.cache
            /\ cache_call' = Call("get_session_history", sid, got.history)
    /\ UNCHANGED last_put
    /\ CacheFrame

\* CacheService.save_session_history(sid, history)
CachePut ==
    /\ \E sid \in Sessions, history \in CacheHistories :
        /\ session_cache' = Cache_save_session_history(session_cache, sid, history, now)
        /\ cache_call' = Call("save_session_history", sid, history)
        /\ last_put' = [last_put EXCEPT ![sid] =
                            [history |-> history, at |-> now,
                             existed |-> sid \in DOMAIN session_cache]]
    /\ CacheFrame

\* CacheService.clear_session(sid)
CacheClear ==
    /\ \E sid \in Sessions :
        \E done \in {Cache_clear_session(session_cache, sid)} :
            /\ session_cache' = done.cache
            /\ cache_call' = Call("clear_session", sid, done.cleared)
            /\ last_put' = [last_put EXCEPT ![sid] = NoPut]
    /\ CacheFrame

\* CacheService.clear_all_sessions()
CacheClearAll ==
    /\ \E done \in {Cache_clear_all_sessions(session_cache)} :
        /\ session_cache' = done.cache
        /\ cache_call' = Call("clear_all_sessions", "", done.count)
    /\ last_put' = [sid \in Sessions |-> NoPut]
    /\ CacheFrame

\* CacheService.cleanup_expired_sessions()
CacheCleanup ==
    /\ \E done \in {Cache_cleanup_expired_sessions(session_cache, now)} :
        /\ session_cache' = done.cache
        /\ cache_call' = Call("cleanup_expired_sessions", "", done.count)
    /\ UNCHANGED last_put
    /\ CacheFrame

\* CacheService.get_session_count()
CacheCount ==
    /\ cache_call' = Call("get_session_count", "", get_session_count(session_cache))
    /\ UNCHANGED <<session_cache, last_put>>
    /\ CacheFrame

\* CacheService.session_exists(sid)
CacheExists ==
    /\ \E sid \in Sessions :
        \E got \in {session_exists(session_cache, sid, now)} :
            /\ session_cache' = got.cache
            /\ cache_call' = Call("session_exists", sid, got.exists)
    /\ UNCHANGED last_put
    /\ CacheFrame

\* The times at which the cache's callers look at the clock: a minute
\* after the start, a minute before the window's end, at its end, a minute
\* after it, and a minute after a second window.
CacheTicks ==
    {1, CACHE_EXPIRATION_MINUTES - 1, CACHE_EXPIRATION_MINUTES,
     CACHE_EXPIRATION_MINUTES + 1, 2 * CACHE_EXPIRATION_MINUTES + 1}

\* Time passes up to the next look at the clock.
CacheTick ==
    /\ \E t \in CacheTicks :
        /\ t > now
        /\ now' = t
    /\ UNCHANGED <<evars, session_cache, messages, uuids, chat_result, calls, log,
                   cache_call, last_put, dvars, tvars>>

CacheNext ==
    \/ CacheGet
    \/ CachePut
    \/ CacheClear
    \/ CacheClearAll
    \/ CacheCleanup
    \/ CacheCount
    \/ CacheExists
    \/ CacheTick

\* CacheService called from one thread.
CacheSpec == Init /\ [][CacheNext]_vars

\* ------------------------------------------- request threads: the singleton
\* get_chatbot_dag() run by request threads, one statement at a step: the
\* test of the global, ChatbotDAG(), the assignment to the global, and the
\* return, which reads the global again.
DagFrame ==
    UNCHANGED <<evars, session_cache, messages, now, uuids, chat_result, calls,
                log, cache_call, last_put, svc_call, heap, cache_obj>>

\* Thread t's locals in get_chatbot_dag: the instance it constructed, the
\* instances its calls returned, and the number of its calls.
DagThread(t) ==
    IF threads[t].pc = "idle"
        THEN [pc |-> "idle", built |-> NoDag, returned |-> {}, ncalls |-> 0]
        ELSE threads[t]

\* Thread t calls get_chatbot_dag().
DagCall(t) ==
    /\ DagThread(t).pc \in {"idle", "done"}
    /\ DagThread(t).ncalls < MaxDagCalls
    /\ threads' = [threads EXCEPT ![t] =
                       [DagThread(t) EXCEPT !.pc = "test", !.ncalls = @ + 1]]
    /\ UNCHANGED <<dag_instance, constructed>>
    /\ DagFrame

\* if _chatbot_dag_instance is None
DagTest(t) ==
    /\ threads[t].pc = "test"
    /\ threads' = [threads EXCEPT ![t].pc =
                       IF dag_instance = NoDag THEN "construct" ELSE "return"]
    /\ UNCHANGED <<dag_instance, constructed>>
    /\ DagFrame

\* ChatbotDAG()
DagConstruct(t) ==
    /\ threads[t].pc = "construct"
    /\ constructed' = constructed + 1
    /\ threads' = [threads EXCEPT ![t].pc = "assign", ![t].built = constructed + 1]
    /\ UNCHANGED dag_instance
    /\ DagFrame

\* _chatbot_dag_instance = ...
DagAssign(t) ==
    /\ threads[t].pc = "assign"
    /\ dag_instance' = threads[t].built
    /\ threads' = [threads EXCEPT ![t].pc = "return"]
    /\ UNCHANGED constructed
    /\ DagFrame

\* return _chatbot_dag_instance
DagReturn(t) ==
    /\ threads[t].pc = "return"
    /\ threads' = [threads EXCEPT ![t].pc = "done",
                                  ![t].returned = @ \cup {dag_instance}]
    /\ UNCHANGED <<dag_instance, constructed>>
    /\ DagFrame

SingletonNext ==
    \E t \in Threads :
        \/ DagCall(t)
        \/ DagTest(t)
        \/ DagConstruct(t)
        \/ DagAssign(t)
        \/ DagReturn(t)

\* Request threads calling get_chatbot_dag(); clear_dag_cache is not called.
SingletonSpec == Init /\ [][SingletonNext]_vars

\* ----------------------------------------------- request threads: the cache
\* CacheService.get_session_history run by request threads, one statement at
\* a step, while other callers save histories and time passes.
RaceFrame ==
    UNCHANGED <<evars, messages, uuids, chat_result, calls, log, cache_call,
                dvars, heap, cache_obj>>

\* Thread t calls CacheService.get_session_history(sid).
RaceGetCall(t) ==
    /\ threads[t].pc \in {"idle", "done"}
    /\ \E sid \in Sessions :
        threads' = [threads EXCEPT ![t] =
                       [pc |-> "get_read", session_id |-> sid,
                        session_data |-> NoEntry, returned |-> << >>,
                        raised |-> FALSE]]
    /\ UNCHANGED <<session_cache, now, last_put>>
    /\ RaceFrame

\* session_data = _session_cache.get(session_id); if not session_data: return []
RaceGetRead(t) ==
    /\ threads[t].pc = "get_read"
    /\ threads' = [threads EXCEPT
                       ![t].session_data = Found(threads[t].session_id),
                       ![t].pc = IF Found(threads[t].session_id) = NoEntry
                                     THEN "done" ELSE "get_expired"]
    /\ UNCHANGED <<session_cache, now, last_put>>
    /\ RaceFrame

\* if _is_expired(session_data['timestamp']) ... return session_data.get('history', [])
RaceGetExpired(t) ==
    /\ threads[t].pc = "get_expired"
    /\ threads' = [threads EXCEPT ![t] =
                       IF _is_expired(threads[t].session_data.timestamp, now)
                           THEN [@ EXCEPT !.pc = "clear_test"]
                           ELSE [@ EXCEPT !.pc = "done",
                                          !.returned = threads[t].session_data.history]]
    /\ UNCHANGED <<session_cache, now, last_put>>
    /\ RaceFrame

\* clear_session: if session_id in _session_cache
RaceClearTest(t) ==
    /\ threads[t].pc = "clear_test"
    /\ threads' = [threads EXCEPT ![t].pc =
                       IF threads[t].session_id \in DOMAIN session_cache
                           THEN "clear_del" ELSE "done"]
    /\ UNCHANGED <<session_cache, now, last_put>>
    /\ RaceFrame

\* clear_session: del _session_cache[session_id], a KeyError if another
\* thread deleted the key since the test.
RaceClearDel(t) ==
    /\ threads[t].pc = "clear_del"
    /\ IF threads[t].session_id \in DOMAIN session_cache
        THEN /\ session_cache' = DropKey(session_cache, threads[t].session_id)
             /\ threads' = [threads EXCEPT ![t].pc = "done"]
        ELSE /\ threads' = [threads EXCEPT ![t].pc = "done", ![t].raised = TRUE]
             /\ UNCHANGED session_cache
    /\ UNCHANGED <<now, last_put>>
    /\ RaceFrame

\* The histories the racing callers save.
RaceHistories == {OldHistory(1), OldHistory(2)}

\* Another caller runs CacheService.save_session_history(sid, history).
RacePut ==
    /\ \E sid \in Sessions, history \in RaceHistories :
        /\ session_cache' = Cache_save_session_history(session_cache, sid, history, now)
        /\ last_put' = [last_put EXCEPT ![sid] =
                            [history |-> history, at |-> now,
                             existed |-> sid \in DOMAIN session_cache]]
    /\ UNCHANGED <<threads, now>>
    /\ RaceFrame

\* Time passes: a minute more than the expiration window.
RaceTick ==
    /\ now + CACHE_EXPIRATION_MINUTES + 1 <= MaxNow
    /\ now' = now + CACHE_EXPIRATION_MINUTES + 1
    /\ UNCHANGED <<threads, session_cache, last_put>>
    /\ RaceFrame

CacheRaceNext ==
    \/ RacePut
    \/ RaceTick
    \/ \E t \in Threads :
        \/ RaceGetCall(t)
        \/ RaceGetRead(t)
        \/ RaceGetExpired(t)
        \/ RaceClearTest(t)
        \/ RaceClearDel(t)

\* Threads reading the cache while histories are saved.
CacheRaceSpec == Init /\ [][CacheRaceNext]_vars

\* ------------------------------------------------- a sweep beside requests
\* CacheService.cleanup_expired_sessions run by a thread, the scan at one
\* step and each clear_session of its loop at a step of its own, while
\* other callers save histories and time passes.
\* Thread t calls cleanup_expired_sessions().
SweepCall(t) ==
    /\ threads[t].pc \in {"idle", "done"}
    /\ threads' = [threads EXCEPT ![t] =
                       [pc |-> "sweep_scan", expired_sessions |-> {}, count |-> 0]]
    /\ UNCHANGED <<session_cache, now, last_put>>
    /\ RaceFrame

\* expired_sessions = [session_id for ... if _is_expired(data['timestamp'])]
SweepScan(t) ==
    /\ threads[t].pc = "sweep_scan"
    /\ LET expired_sessions ==
               {sid \in DOMAIN session_cache :
                    _is_expired(session_cache[sid].timestamp, now)} IN
        threads' = [threads EXCEPT ![t].pc = "sweep_clear",
                                   ![t].expired_sessions = expired_sessions,
                                   ![t].count = Cardinality(expired_sessions)]
    /\ UNCHANGED <<session_cache, now, last_put>>
    /\ RaceFrame

\* for session_id in expired_sessions: clear_session(session_id)
SweepClear(t) ==
    /\ threads[t].pc = "sweep_clear"
    /\ threads[t].expired_sessions # {}
    /\ \E sid \in threads[t].expired_sessions :
        /\ session_cache' = Cache_clear_session(session_cache, sid).cache
        /\ threads' = [threads EXCEPT ![t].expired_sessions = @ \ {sid}]
    /\ UNCHANGED <<now, last_put>>
    /\ RaceFrame

\* return len(expired_sessions)
SweepReturn(t) ==
    /\ threads[t].pc = "sweep_clear"
    /\ threads[t].expired_sessions = {}
    /\ threads' = [threads EXCEPT ![t].pc = "done"]
    /\ UNCHANGED <<session_cache, now, last_put>>
    /\ RaceFrame

SweepNext ==
    \/ RacePut
    \/ RaceTick
    \/ \E t \in Threads :
        \/ SweepCall(t)
        \/ SweepScan(t)
        \/ SweepClear(t)
        \/ SweepReturn(t)

\* Sweeps running while histories are saved.
SweepSpec == Init /\ [][SweepNext]_vars

\* ------------------------------------------- request threads: one session
\* process_chat_message run by request threads for one session.  A list is
\* an object of the heap; the cache entry and a thread's GraphState hold
\* references to objects, and an append changes the object for all holders.
SharedSession == "s1"

SharedFrame ==
    UNCHANGED <<evars, now, uuids, chat_result, calls, log, cache_call, last_put,
                dvars>>

\* Thread t's locals in process_chat_message: the list object its GraphState
\* holds and the number of its calls.
ExThread(t) ==
    IF threads[t].pc = "idle"
        THEN [pc |-> "idle", chat_history |-> NoObject, rounds |-> 0]
        ELSE threads[t]

\* The query thread t sends in its current call, and the provider's answer.
ThreadQuery(t) == <<WORD, SP, t, ToString(ExThread(t).rounds)>>
ThreadResponse(t) == <<"Hello! ", t, ToString(ExThread(t).rounds)>>

\* Thread t's GraphState when it reaches memory_node.
ThreadState(t) ==
    [user_query |-> ThreadQuery(t), query_type |-> "text",
     response |-> ThreadResponse(t)]

\* The cache after list object o became h.
Synced(o, h) ==
    [sid \in DOMAIN session_cache |->
        IF cache_obj[sid] = o THEN [session_cache[sid] EXCEPT !.history = h]
        ELSE session_cache[sid]]

\* An earlier conversation left a history in the cache.
SharedSeed ==
    /\ heap = << >>
    /\ \A t \in Threads : threads[t].pc = "idle"
    /\ \E n \in {2, MAX_HISTORY - 2} :
        /\ heap' = <<OldHistory(n)>>
        /\ session_cache' = Cache_save_session_history(
                                session_cache, SharedSession, OldHistory(n), now)
    /\ cache_obj' = [cache_obj EXCEPT ![SharedSession] = 1]
    /\ UNCHANGED <<threads, messages>>
    /\ SharedFrame

\* Thread t runs process_chat_message up to memory_node: the history lookup
\* and process_query's initial_state, chat_history = session_history or [].
ExCall(t) ==
    /\ ExThread(t).pc \in {"idle", "done"}
    /\ ExThread(t).rounds < MaxRounds
    /\ \E hist \in {_get_conversation_history(session_cache, messages,
                                               SharedSession, now)} :
        LET new == Len(heap) + 1
            o == IF ~hist.store_read THEN cache_obj[SharedSession] ELSE new IN
        /\ heap' = IF hist.store_read THEN Append(heap, hist.history) ELSE heap
        /\ session_cache' = hist.cache
        /\ cache_obj' = IF hist.store_read /\ hist.in_cache
                            THEN [cache_obj EXCEPT ![SharedSession] = new]
                            ELSE cache_obj
        /\ threads' = [threads EXCEPT ![t] =
                           [pc |-> "memory_user", chat_history |-> o,
                            rounds |-> ExThread(t).rounds + 1]]
    /\ UNCHANGED messages
    /\ SharedFrame

\* memory_node: state['chat_history'].append({'type': 'user', ...})
ExAppendUser(t) ==
    /\ threads[t].pc = "memory_user"
    /\ LET o == threads[t].chat_history
           h == Append(heap[o], MemoryEntries(ThreadState(t))[1]) IN
        /\ heap' = [heap EXCEPT ![o] = h]
        /\ session_cache' = Synced(o, h)
    /\ threads' = [threads EXCEPT ![t].pc = "memory_bot"]
    /\ UNCHANGED <<cache_obj, messages>>
    /\ SharedFrame

\* memory_node: state['chat_history'].append({'type': 'assistant', ...})
ExAppendBot(t) ==
    /\ threads[t].pc = "memory_bot"
    /\ LET o == threads[t].chat_history
           h == Append(heap[o], MemoryEntries(ThreadState(t))[2]) IN
        /\ heap' = [heap EXCEPT ![o] = h]
        /\ session_cache' = Synced(o, h)
    /\ threads' = [threads EXCEPT ![t].pc = "memory_slice"]
    /\ UNCHANGED <<cache_obj, messages>>
    /\ SharedFrame

\* memory_node: if len(state['chat_history']) > 20: a new list, the last 20.
ExSlice(t) ==
    /\ threads[t].pc = "memory_slice"
    /\ LET o == threads[t].chat_history IN
        IF Len(heap[o]) > MAX_HISTORY
            THEN /\ heap' = Append(heap, LastN(heap[o], MAX_HISTORY))
                 /\ threads' = [threads EXCEPT ![t].pc = "put",
                                               ![t].chat_history = Len(heap) + 1]
            ELSE /\ threads' = [threads EXCEPT ![t].pc = "put"]
                 /\ UNCHANGED heap
    /\ UNCHANGED <<session_cache, cache_obj, messages>>
    /\ SharedFrame

\* process_chat_message after process_query returned: save_conversation and
\* CacheService.save_session_history(session_id, result['chat_history']).
ExPut(t) ==
    /\ threads[t].pc = "put"
    /\ messages' = save_conversation(messages, SharedSession, ThreadQuery(t),
                                      ThreadResponse(t), "text", now, "ok")
    /\ session_cache' = Cache_save_session_history(
                            session_cache, SharedSession,
                            heap[threads[t].chat_history], now)
    /\ cache_obj' = [cache_obj EXCEPT ![SharedSession] = threads[t].chat_history]
    /\ threads' = [threads EXCEPT ![t].pc = "done"]
    /\ UNCHANGED heap
    /\ SharedFrame

SharedNext ==
    \/ SharedSeed
    \/ \E t \in Threads :
        \/ ExCall(t)
        \/ ExAppendUser(t)
        \/ ExAppendBot(t)
        \/ ExSlice(t)
        \/ ExPut(t)

\* Request threads serving queries of one session.
SharedSpec == Init /\ [][SharedNext]_vars

\* ------------------------------------------------ a clear beside requests
\* MessageService.delete_session_history(session_id): the rows of the other
\* sessions and the number of rows deleted.
Message_delete_session_history(rows, sid) ==
    LET Other(row) == row.session_id # sid IN
    [rows |-> SelectSeq(rows, Other),
     deleted |-> Len(rows) - Len(SelectSeq(rows, Other))]

\* No clear_session call is between its two statements.
ClearIdle == IF svc_call.op = "clear_session" THEN svc_call.returned ELSE TRUE

\* The number of clear_session calls made so far.
Clears == IF svc_call.op = "clear_session" THEN svc_call.clears ELSE 0

\* The number of process_chat_message calls each thread has started.
Started == [t \in Threads |-> ExThread(t).rounds]

\* A client calls ChatbotService.clear_session(SharedSession); its first
\* statement, cache_cleared = CacheService.clear_session(session_id).
\* started_before and started keep what Started was when the clear was
\* called and when it returned.
ClearSessionCache ==
    /\ ClearIdle
    /\ Clears < MaxClears
    /\ \E cleared \in {Cache_clear_session(session_cache, SharedSession)} :
        /\ session_cache' = cleared.cache
        /\ svc_call' = [op |-> "clear_session", session_id |-> SharedSession,
                        returned |-> FALSE, cache_cleared |-> cleared.cleared,
                        messages_deleted |-> 0, clears |-> Clears + 1,
                        started_before |-> Started, started |-> Started]
    /\ cache_obj' = [cache_obj EXCEPT ![SharedSession] = NoObject]
    /\ UNCHANGED <<evars, messages, now, uuids, chat_result, calls, log,
                   cache_call, last_put, dag_instance, constructed, threads, heap>>

\* db_count = MessageService.delete_session_history(session_id) and the
\* return.
ClearSessionStore ==
    /\ ~ClearIdle
    /\ \E gone \in {Message_delete_session_history(messages, SharedSession)} :
        /\ messages' = gone.rows
        /\ svc_call' = [svc_call EXCEPT
                            !.returned = TRUE,
                            !.messages_deleted = gone.deleted,
                            !.started = Started]
    /\ UNCHANGED <<evars, session_cache, now, uuids, chat_result, calls, log,
                   cache_call, last_put, dag_instance, constructed, tvars>>

\* The earlier conversation ended before the first clear was called.
ClearSeed == svc_call = NoCall /\ SharedSeed

ClearNext ==
    \/ ClearSeed
    \/ ClearSessionCache
    \/ ClearSessionStore
    \/ \E t \in Threads :
        \/ ExCall(t)
        \/ ExAppendUser(t)
        \/ ExAppendBot(t)
        \/ ExSlice(t)
        \/ ExPut(t)

\* Request threads serving queries of one session while it is cleared.
ClearSpec == Init /\ [][ClearNext]_vars

\* ------------------------------------------------------------------ claims
IsPrefix(a, b) == Len(a) <= Len(b) /\ SubSeq(b, 1, Len(a)) = a

TextPath == <<"input_node", "decision_node", "llm_node", "memory_node", "output_node">>
CalcPath == <<"input_node", "decision_node", "tool_node", "memory_node", "output_node">>

Returned == pc = "returned"
Succeeded == pc = "returned" /\ result.success
Faulted == pc = "returned" /\ ~result.success

\* C1: a run of process_query that does not fault runs input_node,
\* decision_node, exactly one of llm_node (iff query_type = text) and
\* tool_node (iff query_type = calculation), memory_node and output_node, in
\* this order and each once; at every moment the nodes run so far are a
\* prefix of one of the two paths, so no node is re-entered and both
\* branches join at memory_node.
C1_StageOrder ==
    /\ IsPrefix(trace, TextPath) \/ IsPrefix(trace, CalcPath)
    /\ pc = "llm_node" => state.query_type = "text"
    /\ pc = "tool_node" => state.query_type = "calculation"
    /\ Succeeded =>
        /\ trace \in {TextPath, CalcPath}
        /\ trace = TextPath <=> result.query_type = "text"
        /\ trace = CalcPath <=> result.query_type = "calculation"

C1_Witness == Succeeded /\ trace = CalcPath /\ result.query_type = "calculation"

\* C2: process_query never lets an exception propagate to its caller, and
\* what it returns is a record with exactly the fields success, response,
\* query_type, chat_history, calculation_result and error.
C2_StructuredResult ==
    /\ pc # "propagated"
    /\ Returned =>
        /\ DOMAIN result = {"success", "response", "query_type", "chat_history",
                            "calculation_result", "error"}
        /\ result.success \in BOOLEAN

C2_Witness == Faulted /\ result.error = ATTRIBUTE_ERROR

\* C3: every started process_query call eventually returns, given that the
\* provider's call returns or fails.
C3_Terminates == (pc = START_NODE) ~> (pc = "returned")

C3_Witness == Returned /\ ext.llm = "returned" /\ Len(trace) = Len(TextPath)

\* The query passes validation: non-empty after trimming, at most 5000
\* characters, no denylisted pattern.
QueryPasses(q) ==
    /\ q # None
    /\ Strip(q) # << >>
    /\ TextLen(Strip(q)) <= MAX_QUERY_LENGTH
    /\ \A i \in 1..Len(q) : q[i] # JS

\* The history the caller supplied, as it was before the call.
Supplied == IF ListTruthy(args.session_history) THEN args.session_history ELSE << >>

Ran(node) == \E i \in 1..Len(trace) : trace[i] = node

Min(a, b) == IF a < b THEN a ELSE b

\* h2 is the last MAX_HISTORY entries of h followed by u and a.
Recorded(h, u, a, h2) ==
    LET n == Len(h2) IN
    /\ n = Min(Len(h) + 2, MAX_HISTORY)
    /\ h2[n] = a
    /\ h2[n - 1] = u
    /\ \A i \in 1..(n - 2) : h2[i] = h[Len(h) - (n - 2) + i]

\* C4: every result process_query returns and every result
\* process_chat_message returns has a non-empty response, whichever path the
\* call took (validation failure, provider failure, evaluator failure, a
\* fault in the graph, a failed read of the store, success), and the state's
\* response is non-empty once output_node has run.
C4_ResponseNonEmpty ==
    /\ pc = "returned" => result.response # << >>
    /\ chat_result # NoResult => chat_result.response # << >>
    /\ Ran("output_node") => state.response # << >>

C4_Witness ==
    /\ calls = MaxChats
    /\ chat_result # NoResult
    /\ chat_result.success
    /\ ext.llm = "returned"
    /\ Ran("output_node")
    /\ state.response = FALLBACK
    /\ chat_result.response = FALLBACK

\* C11: when input_node fails (the query is missing or fails validation)
\* it sets error and leaves every other field of the state as given, the
\* query included, and the run is not halted: decision_node, one branch
\* node, memory_node and output_node all still run.
C11_EntryFailure ==
    ~QueryPasses(args.user_query) =>
        /\ pc = "decision_node" =>
            /\ state.error # << >>
            /\ state = [InitialState(args.user_query, args.session_id,
                                     args.session_history)
                            EXCEPT !.error = state.error]
        /\ Returned => trace \in {TextPath, CalcPath}

\* C12: once error is non-empty after a node of a run it is non-empty after
\* every later node and in the result process_query returns.
C12_ErrorSticks ==
    [][(pc # "idle" /\ state.error # << >>) =>
        /\ state'.error # << >>
        /\ pc' = "returned" => result'.error # << >>
    ]_vars

C12_Witness ==
    /\ Succeeded
    /\ ext.llm = "returned"
    /\ result.error = <<"Query contains potentially harmful content">>

\* C13: when graph.invoke raises, at whichever node, process_query returns
\* success = false, the generic response, an empty query_type and a history
\* equal to the history the caller supplied before the call.
C13_FaultKeepsHistory ==
    Faulted =>
        /\ result.response = GENERIC_FAILURE
        /\ result.query_type = ""
        /\ result.chat_history = Supplied

\* C14: in every state of a run and in every result, calculation_result is
\* non-empty only if query_type is calculation and tool_node ran and its
\* evaluation succeeded; it is empty on the text branch, when the
\* evaluation fails and when graph.invoke raises.
C14_CalculationResult ==
    /\ state.calculation_result # << >> =>
        (state.query_type = "calculation" /\ Ran("tool_node") /\ ext.eval = "returned")
    /\ Returned =>
        /\ result.calculation_result # << >> =>
            /\ result.success
            /\ result.query_type = "calculation"
            /\ Ran("tool_node") /\ ext.eval = "returned"
        /\ ext.eval # "returned" => result.calculation_result = << >>
        /\ ~result.success => result.calculation_result = << >>

C14_Witness ==
    /\ Succeeded
    /\ result.query_type = "calculation"
    /\ result.calculation_result = <<"8.5">>
    /\ result.error # << >>

\* The age at time t of an entry exceeds the expiration window.
Stale(entry, t) == t - entry.timestamp > CACHE_EXPIRATION_MINUTES

\* The step is a call of CacheService's method op.
CallOf(op) == cache_call'.op = op /\ now' = now

\* Cache c2 is cache c without the sessions of gone, the rest as it was.
Without(c, gone, c2) ==
    /\ DOMAIN c2 = DOMAIN c \ gone
    /\ \A sid \in DOMAIN c2 : c2[sid] = c[sid]

\* C15: get_session_history returns the stored history of an entry that is
\* present and not expired and leaves the cache as it was; for an expired
\* entry it removes that entry, and no other, and returns the empty list;
\* for a session without an entry it returns the empty list and changes
\* nothing.
C15_Get ==
    [][CallOf("get_session_history") =>
        LET sid == cache_call'.session_id IN
        IF sid \notin DOMAIN session_cache
            THEN /\ cache_call'.returned = << >>
                 /\ session_cache' = session_cache
        ELSE IF Stale(session_cache[sid], now)
            THEN /\ cache_call'.returned = << >>
                 /\ Without(session_cache, {sid}, session_cache')
            ELSE /\ cache_call'.returned = session_cache[sid].history
                 /\ session_cache' = session_cache
    ]_vars

C15_Witness ==
    /\ cache_call.op = "get_session_history"
    /\ cache_call.found # NoEntry
    /\ cache_call.found.history # << >>
    /\ Stale(cache_call.found, cache_call.at)
    /\ cache_call.returned = << >>
    /\ DOMAIN session_cache = Sessions \ {cache_call.session_id}

\* C16: an entry saved at time T is returned by get_session_history at
\* every time up to T + 59 minutes and at T + 60 minutes, and is a miss at
\* every time from T + 61 minutes on, whatever cleanup_expired_sessions,
\* get_session_history and session_exists calls came in between.
C16_Ttl ==
    \A sid \in Sessions :
        (/\ cache_call.op = "get_session_history"
         /\ cache_call.session_id = sid
         /\ last_put[sid] # NoPut) =>
            LET age == cache_call.at - last_put[sid].at IN
            /\ age < CACHE_EXPIRATION_MINUTES =>
                    cache_call.returned = last_put[sid].history
            /\ age = CACHE_EXPIRATION_MINUTES =>
                    cache_call.returned = last_put[sid].history
            /\ age > CACHE_EXPIRATION_MINUTES => cache_call.returned = << >>

C16_Witness ==
    /\ cache_call.op = "get_session_history"
    /\ last_put[cache_call.session_id] # NoPut
    /\ last_put[cache_call.session_id].at = 1
    /\ cache_call.at = CACHE_EXPIRATION_MINUTES + 1
    /\ cache_call.returned = OldHistory(2)

\* C17: save_session_history(session, history) followed by
\* get_session_history(session) within the expiration window, with no
\* clear or save of that session in between, returns the history saved:
\* for the empty history too, and whether or not the session had an entry
\* before the save.
C17_RoundTrip ==
    (cache_call.op = "get_session_history" /\ cache_call.session_id # "") =>
        LET put == last_put[cache_call.session_id] IN
        (put # NoPut /\ ~(cache_call.at - put.at > CACHE_EXPIRATION_MINUTES)) =>
            /\ cache_call.returned = put.history
            /\ cache_call.found = [history |-> put.history, timestamp |-> put.at]

C17_Witness ==
    /\ cache_call.op = "get_session_history"
    /\ last_put[cache_call.session_id] # NoPut
    /\ last_put[cache_call.session_id].existed
    /\ cache_call.at > last_put[cache_call.session_id].at
    /\ cache_call.returned = OldHistory(1)

\* C18: clear_session on a present, unexpired entry returns true and a get
\* after it is a miss; on an absent entry and on an expired entry (one not
\* yet removed by a get or a sweep included) it returns false.
C18_Invalidate ==
    cache_call.op = "clear_session" =>
        LET live == /\ cache_call.found # NoEntry
                    /\ ~Stale(cache_call.found, cache_call.at) IN
        /\ cache_call.returned = live
        /\ cache_call.returned =>
            Cache_get_session_history(session_cache, cache_call.session_id,
                                      now).history = << >>

\* C19: cleanup_expired_sessions removes every entry older than the
\* expiration window and no other entry, leaves the other entries' history
\* and timestamp as they were, and returns the number of entries it
\* removed, so get_session_count drops by the number returned.
C19_Sweep ==
    [][CallOf("cleanup_expired_sessions") =>
        LET expired == {sid \in DOMAIN session_cache :
                            Stale(session_cache[sid], now)} IN
        /\ Without(session_cache, expired, session_cache')
        /\ cache_call'.returned = Cardinality(expired)
        /\ get_session_count(session_cache') =
                get_session_count(session_cache) - cache_call'.returned
    ]_vars

C19_Witness ==
    /\ cache_call.op = "cleanup_expired_sessions"
    /\ cache_call.returned = 1
    /\ get_session_count(session_cache) = 1

\* C20: session_exists returns true iff the session has an entry that is
\* not expired, and it never changes the cache: an expired entry is still
\* held, and counted by get_session_count, after session_exists returned
\* false for it.
C20_Exists ==
    [][CallOf("session_exists") =>
        LET sid == cache_call'.session_id IN
        /\ cache_call'.returned =
            (sid \in DOMAIN session_cache /\ ~Stale(session_cache[sid], now))
        /\ session_cache' = session_cache
    ]_vars

C20_Witness ==
    /\ cache_call.op = "session_exists"
    /\ cache_call.returned = FALSE
    /\ cache_call.session_id \in DOMAIN session_cache
    /\ Stale(session_cache[cache_call.session_id], now)
    /\ get_session_count(session_cache) = 2

\* C27: output_node is idempotent: applied twice to a state it gives what
\* it gives applied once, and applied to a state whose response is
\* non-empty it changes no field.
C27_ExitIdempotent ==
    /\ output_node(output_node(state)) = output_node(state)
    /\ state.response # << >> => output_node(state) = state

C27_Witness ==
    /\ pc = END
    /\ Ran("output_node")
    /\ state.response = FALLBACK
    /\ output_node(state) = state

\* The query_type a query is given: that of the query as input_node leaves it.
Classify(q) ==
    LET seen == IF QueryPasses(q) THEN sanitize_query(q) ELSE q IN
    IF is_calculation_query(seen) THEN "calculation" ELSE "text"

\* C28: for every query string decision_node sets query_type to text or to
\* calculation, the value depending on the query alone (not on the session,
\* the history or the run), the router then has a target, and query_type
\* is non-empty in every state after decision_node.
C28_Classification ==
    (args.user_query # None /\ Ran("decision_node")) =>
        /\ state.query_type \in {"text", "calculation"}
        /\ state.query_type = Classify(args.user_query)
        /\ RouteMap(_route_query(state)) \in {"llm_node", "tool_node"}
        /\ pc \notin {"raised", "propagated"}
        /\ Returned => result.query_type = Classify(args.user_query)

C28_Witness ==
    /\ pc = "tool_node"
    /\ state.query_type = "calculation"
    /\ ~QueryPasses(args.user_query)

\* What a step of a node may change of the identifying fields.
FieldWrites ==
    pc \in {"input_node", "decision_node", "llm_node", "tool_node",
            "memory_node", "output_node"} =>
        /\ state'.session_id = state.session_id
        /\ state'.session_id = args.session_id
        /\ pc # "input_node" => state'.user_query = state.user_query
        /\ pc = "input_node" =>
            state'.user_query \in {state.user_query, sanitize_query(state.user_query)}
        /\ pc # "decision_node" => state'.query_type = state.query_type
        /\ (pc = "decision_node" /\ pc' # "raised") =>
            (state.query_type = "" /\ state'.query_type # "")

\* C30: no node changes session_id; only input_node changes the query, to
\* its sanitized form; only decision_node writes query_type, once, and
\* the branch nodes, memory_node and output_node leave it as it is.
C30_FieldWriters == [][FieldWrites]_vars

C30_Witness ==
    /\ Succeeded
    /\ trace = CalcPath
    /\ QueryPasses(args.user_query)
    /\ state.user_query # args.user_query
    /\ state.user_query = sanitize_query(args.user_query)

\* C5: for a query that passes validation process_query returns
\* success = true and a non-empty response, on either branch and whatever the
\* provider or the evaluator does.
C5_ValidQuerySucceeds ==
    (Returned /\ QueryPasses(args.user_query)) =>
        (result.success /\ result.response # << >>)

C5_Witness ==
    /\ Succeeded
    /\ QueryPasses(args.user_query)
    /\ ext.llm = "returned"
    /\ result.response = FALLBACK

C7_HistoryBound ==
    LET n == Len(log)
        kept == MAX_HISTORY \div 2 IN
    n > kept =>
        LET h == session_cache["s1"].history IN
        /\ Len(h) = MAX_HISTORY
        /\ \A k \in 1..kept :
            /\ h[2 * k - 1].content = log[n - kept + k].query
            /\ h[2 * k].content = log[n - kept + k].response

\* C8: when the provider fails in llm_node, error is non-empty and response
\* is the fixed apology from then on, the run goes on through memory_node
\* and output_node, the exchange is appended to the history, and
\* process_query returns success = true.
C8_ProviderFailure ==
    ext.llm = "raised" =>
        /\ pc \notin {"raised", "propagated"}
        /\ state.error # << >>
        /\ state.response = LLM_APOLOGY
        /\ Returned =>
            /\ result.success
            /\ result.error # << >>
            /\ result.response = LLM_APOLOGY
            /\ Ran("memory_node") /\ Ran("output_node")
            /\ Recorded(Supplied,
                        [type |-> "user", content |-> state.user_query,
                         query_type |-> "text"],
                        [type |-> "assistant", content |-> LLM_APOLOGY],
                        result.chat_history)

C8_Witness == Succeeded /\ ext.llm = "raised" /\ Len(result.chat_history) = MAX_HISTORY

\* C9: when the evaluator fails in tool_node, process_query returns
\* success = true, a non-empty error, the fixed "couldn't perform that
\* calculation" response and an empty calculation_result, and the exchange
\* is appended to the history.
C9_EvaluatorFailure ==
    ext.eval = "raised" =>
        /\ pc \notin {"raised", "propagated"}
        /\ state.calculation_result = << >>
        /\ Returned =>
            /\ result.success
            /\ result.error # << >>
            /\ result.response = CALC_APOLOGY
            /\ result.calculation_result = << >>
            /\ Recorded(Supplied,
                        [type |-> "user", content |-> state.user_query,
                         query_type |-> "calculation"],
                        [type |-> "assistant", content |-> CALC_APOLOGY],
                        result.chat_history)

C9_Witness == Succeeded /\ ext.eval = "raised" /\ Len(result.chat_history) = 2

\* C10, as claimed: when input_node fails validation, memory_node does not
\* run and the returned history equals the supplied history.
C10_ShortCircuit ==
    (Returned /\ ~QueryPasses(args.user_query)) =>
        (~Ran("memory_node") /\ result.chat_history = Supplied)

\* C10, amended: when input_node fails validation the run is not cut short.
\* For a missing query (None) decision_node raises, process_query returns
\* success = false and the returned history equals the supplied history.
\* For every other failing query the run goes on through one branch,
\* memory_node and output_node, process_query returns success = true with a
\* non-empty error, and the returned history is the last 20 entries of the
\* supplied history followed by the user entry (the query as given,
\* unsanitized) and the assistant entry (the response the branch produced).
C10_NotShortCircuited ==
    (Returned /\ ~QueryPasses(args.user_query)) =>
        IF args.user_query = None
            THEN /\ ~result.success
                 /\ ~Ran("memory_node")
                 /\ result.chat_history = Supplied
            ELSE /\ result.success
                 /\ result.error # << >>
                 /\ trace \in {TextPath, CalcPath}
                 /\ \E r \in {result.response, << >>} :
                        /\ r = << >> => result.response = FALLBACK
                        /\ Recorded(Supplied,
                                    [type |-> "user", content |-> args.user_query,
                                     query_type |-> result.query_type],
                                    [type |-> "assistant", content |-> r],
                                    result.chat_history)

C10_Witness ==
    /\ Succeeded
    /\ ~QueryPasses(args.user_query)
    /\ Len(result.chat_history) = Len(Supplied) + 2
    /\ result.chat_history[Len(Supplied) + 1].content = <<SP>>


\* ------------------------------------------------------ the service's claims
\* The step is a process_chat_message call.
ChatStep == calls' = calls + 1

\* The step is a ChatbotService.get_session_history call.
HistoryStep ==
    /\ svc_call'.op = "get_session_history"
    /\ calls' = calls
    /\ now' = now

\* The cache holds an entry for sid that has not expired.
Unexpired(sid) ==
    /\ sid \in DOMAIN session_cache
    /\ ~Stale(session_cache[sid], now)

\* What the store answers to a history query for sid.
StoreResult(sid, limit) ==
    format_history_for_api(Message_get_session_history(messages, sid, limit))

InvalidQueryStep ==
    (ChatStep /\ ~QueryPasses(svc_call'.user_query)) =>
        /\ chat_result'.success = FALSE
        /\ chat_result'.error # << >>
        /\ chat_result'.session_id = svc_call'.session_id
        /\ ~svc_call'.engine_invoked
        /\ ~svc_call'.store_read
        /\ UNCHANGED evars
        /\ uuids' = uuids
        /\ session_cache' = session_cache
        /\ messages' = messages
        /\ log' = log
        /\ dag_instance' = dag_instance
        /\ constructed' = constructed

\* C29: process_chat_message given an empty, oversized or unsafe query
\* returns success = false with a non-empty error, and invokes no engine,
\* generates no session id, reads no store, leaves the cache as it was and
\* writes nothing to the store.
C29_InvalidQuery == [][InvalidQueryStep]_vars

C29_Witness ==
    /\ svc_call.op = "process_chat_message"
    /\ svc_call.user_query = <<BIG, WORD>>
    /\ svc_call.session_id = NoSession
    /\ ~chat_result.success
    /\ chat_result.error # << >>
    /\ calls = 2
    /\ messages # << >>
    /\ session_cache # << >>

\* C23: no process_chat_message call observes, or is answered with, a
\* failure to construct the engine.
C23_NoConstructionFailure ==
    svc_call.op = "process_chat_message" =>
        /\ ~svc_call.build_failed
        /\ chat_result.error # CONFIG_ERROR

ExchangeStored ==
    (ChatStep /\ chat_result'.success) =>
        LET sid == chat_result'.session_id
            n == Len(messages) IN
        /\ sid \in DOMAIN session_cache'
        /\ session_cache'[sid] = [history |-> result'.chat_history, timestamp |-> now']
        /\ Len(messages') = n + 2
        /\ SubSeq(messages', 1, n) = messages
        /\ messages'[n + 1].session_id = sid
        /\ messages'[n + 1].message_type = USER
        /\ messages'[n + 1].message = state'.user_query
        /\ messages'[n + 2].session_id = sid
        /\ messages'[n + 2].message_type = BOT
        /\ messages'[n + 2].message = chat_result'.response

FailureStoresNothing ==
    (ChatStep /\ svc_call'.engine_invoked /\ pc' = "returned" /\ ~result'.success) =>
        LET sid == svc_call'.session_id IN
        /\ messages' = messages
        /\ session_cache' =
               _get_conversation_history(session_cache, messages, sid, now).cache

\* C24: after a process_chat_message that returns success = true the
\* session's cache entry holds the history the engine returned, stamped
\* with the time of completion, and the store has gained the user message
\* followed by the bot response; when the engine returns success = false
\* neither the cache nor the store is written.
C24_Persisted == [][ExchangeStored /\ FailureStoresNothing]_vars

LookupStep ==
    (ChatStep /\ QueryPasses(svc_call'.user_query)) =>
        LET sid == svc_call'.session_id IN
        /\ Unexpired(sid) =>
            /\ ~svc_call'.store_read
            /\ svc_call'.history = session_cache[sid].history
        /\ (svc_call'.store_read /\ svc_call'.build_failed
                /\ StoreResult(sid, DB_HISTORY_LIMIT) # << >>) =>
            /\ sid \in DOMAIN session_cache'
            /\ session_cache'[sid] =
                   [history |-> StoreResult(sid, DB_HISTORY_LIMIT), timestamp |-> now]

EndpointStep ==
    HistoryStep =>
        LET sid == svc_call'.session_id
            limit == svc_call'.limit IN
        /\ Unexpired(sid) =>
            /\ ~svc_call'.store_read
            /\ ~svc_call'.raised
            /\ svc_call'.returned.source = "cache"
            /\ svc_call'.returned.history = FirstN(session_cache[sid].history, limit)
            /\ session_cache' = session_cache
        /\ (svc_call'.store_read /\ ~svc_call'.raised
                /\ StoreResult(sid, limit) # << >>) =>
            /\ svc_call'.returned.history = StoreResult(sid, limit)
            /\ sid \in DOMAIN session_cache'
            /\ session_cache'[sid] =
                   [history |-> StoreResult(sid, limit), timestamp |-> now]

DagsReturned(t) == DagThread(t).returned

\* C22: however many threads call get_chatbot_dag, and however their first
\* calls interleave, at most one ChatbotDAG is constructed and every call
\* returns the same instance.
C22_Singleton ==
    /\ constructed <= 1
    /\ \A t \in Threads, u \in Threads :
        \A i \in DagsReturned(t), j \in DagsReturned(u) : i = j

\* C21: an entry a save_session_history call wrote is not removed by a
\* get_session_history call's eviction of the expired entry it replaced:
\* while the saved entry has not expired it is in the cache, as saved.
C21_NoLostUpdate ==
    \A sid \in Sessions :
        (last_put[sid] # NoPut /\ now - last_put[sid].at <= CACHE_EXPIRATION_MINUTES) =>
            /\ sid \in DOMAIN session_cache
            /\ session_cache[sid] =
                   [history |-> last_put[sid].history, timestamp |-> last_put[sid].at]


\* Thread t is executing a query and has not yet saved its history.
InFlight(t) == threads[t].pc \in {"memory_user", "memory_bot", "memory_slice", "put"}

\* History h holds an entry the current execution of thread t recorded.
Wrote(t, h) ==
    \E i \in 1..Len(h) : h[i].content \in {ThreadQuery(t), ThreadResponse(t)}

\* C26: what the recording stage of one execution wrote is in no other
\* concurrent execution's history and in no cache entry before that
\* execution's own save, also when two queries of one session read the
\* same cached history.
C26_Owned ==
    \A t \in Threads :
        InFlight(t) =>
            /\ \A u \in Threads \ {t} :
                InFlight(u) => ~Wrote(t, heap[threads[u].chat_history])
            /\ SharedSession \in DOMAIN session_cache =>
                ~Wrote(t, session_cache[SharedSession].history)


\* ----------------------------------------------- the exchange as recorded
\* C31: the assistant entry memory_node appended for an exchange has the
\* content of the response process_query returns for it, also when the
\* branch node left the response empty and output_node substituted the
\* fallback.
C31_RecordedResponse ==
    (Succeeded /\ Ran("memory_node")) =>
        LET h == result.chat_history IN
        /\ Len(h) >= 2
        /\ h[Len(h)].type = "assistant"
        /\ h[Len(h)].content = result.response

\* The query without the filler keywords, trimmed; the query itself when
\* nothing is left.
Expression(q) ==
    IF Strip(Remove(q, {KW})) = << >> THEN q ELSE Strip(Remove(q, {KW}))

CalculationStep ==
    (pc = "tool_node" /\ ext'.eval = "returned") =>
        /\ pc' = "memory_node"
        /\ \E value \in EvalOutcomes \ {"raise"} :
            /\ state'.calculation_result = <<value>>
            /\ state'.response =
                   <<"The result of ">> \o Expression(state.user_query)
                       \o <<" is ", value>>
        /\ state'.error = state.error
        /\ state'.user_query = state.user_query
        /\ state'.chat_history = state.chat_history

\* C32: when tool_node's evaluation succeeds, calculation_result is the
\* string of the value the evaluator returned, response is "The result of
\* <expression> is <value>" and error is as it was; the expression is the
\* query without the filler keywords, trimmed, or the whole query when
\* nothing is left.
C32_Calculation == [][CalculationStep]_vars

C32_Witness ==
    /\ Succeeded
    /\ trace = CalcPath
    /\ state.user_query = <<KW>>
    /\ result.calculation_result = <<"4">>
    /\ result.response = <<"The result of ", KW, " is ", "4">>
    /\ result.error = << >>


\* ------------------------------------------------------ the window's start
WindowStep ==
    /\ CallOf("save_session_history") =>
        session_cache'[cache_call'.session_id].timestamp = now
    /\ (CallOf("get_session_history") \/ CallOf("session_exists")) =>
        \A sid \in DOMAIN session_cache' :
            /\ sid \in DOMAIN session_cache
            /\ session_cache'[sid].timestamp = session_cache[sid].timestamp
    /\ CallOf("get_session_history") =>
        LET sid == cache_call'.session_id IN
        (last_put[sid] # NoPut /\ now - last_put[sid].at > CACHE_EXPIRATION_MINUTES) =>
            /\ cache_call'.returned = << >>
            /\ sid \notin DOMAIN session_cache'
    /\ \A sid \in DOMAIN session_cache' :
        /\ last_put'[sid] # NoPut
        /\ session_cache'[sid].timestamp = last_put'[sid].at

\* C33: a save sets the entry's timestamp to the current time, get and
\* exists change no timestamp, so every entry's timestamp is the time of the
\* session's last save, and a get more than 60 minutes after that save is a
\* miss however often the entry was read in between.
C33_WindowFromPut == [][WindowStep]_vars

C33_Witness ==
    /\ cache_call.op = "get_session_history"
    /\ cache_call.found # NoEntry
    /\ cache_call.returned = << >>
    /\ cache_call.found.history # << >>
    /\ last_put[cache_call.session_id] # NoPut
    /\ last_put[cache_call.session_id].at = CACHE_EXPIRATION_MINUTES
    /\ cache_call.at = 2 * CACHE_EXPIRATION_MINUTES + 1


\* A clear_session of a sweep's loop removes only an entry that is expired
\* when it is removed.
SweepRemoval ==
    \A t \in Threads :
        (threads[t].pc = "sweep_clear" /\ threads'[t] # threads[t]) =>
            \A sid \in DOMAIN session_cache \ DOMAIN session_cache' :
                Stale(session_cache[sid], now)

\* C34: a sweep that runs beside request handling evicts only entries that
\* are expired at the moment it removes them; an entry a save rewrote after
\* the sweep's scan is not deleted by the sweep.
C34_SweepKeepsFresh == [][SweepRemoval]_vars


\* --------------------------------------------------- a store that fails
\* The step is a process_chat_message call whose engine run succeeded and
\* whose save_conversation left a row unsaved.
StoreFailedStep ==
    /\ ChatStep
    /\ svc_call'.engine_invoked
    /\ pc' = "returned"
    /\ result'.success
    /\ Len(messages') < Len(messages) + 2

StoreFailureStep ==
    StoreFailedStep =>
        LET sid == svc_call'.session_id IN
        /\ chat_result'.success
        /\ chat_result'.response = result'.response
        /\ chat_result'.session_id = sid
        /\ sid \in DOMAIN session_cache'
        /\ session_cache'[sid] =
               [history |-> result'.chat_history, timestamp |-> now']
        /\ log' = Append(log, [session_id |-> sid, query |-> state'.user_query,
                               response |-> result'.response])

\* C35: when save_conversation fails, process_chat_message still returns
\* success = true with the engine's response and still saves the updated
\* history in the cache, so the cache holds an exchange the store does not.
C35_StoreFailure == [][StoreFailureStep]_vars

C35_Witness ==
    /\ chat_result # NoResult
    /\ chat_result.success
    /\ calls = 1
    /\ messages = << >>
    /\ chat_result.session_id \in DOMAIN session_cache
    /\ LET h == session_cache[chat_result.session_id].history IN
        /\ Len(h) = 2
        /\ h[2].content = chat_result.response


\* ------------------------------------------------- histories from the store
\* The rows the store holds for sid, oldest first.
SessionRows(sid) ==
    LET OfSession(row) == row.session_id = sid IN SelectSeq(messages, OfSession)

LoadStep ==
    (ChatStep /\ svc_call'.store_read /\ svc_call'.engine_invoked
        /\ Len(SessionRows(svc_call'.session_id)) > DB_HISTORY_LIMIT) =>
        LET recent == format_history_for_api(
                          LastN(SessionRows(svc_call'.session_id), DB_HISTORY_LIMIT)) IN
        /\ svc_call'.history = recent
        /\ args'.session_history = recent

\* C36: on a cache miss for a session of which the store holds more than
\* 20 messages, the history handed to the engine is the 20 most recent
\* messages of the session, oldest first.
C36_RecentLoaded == [][LoadStep]_vars


\* History h has at most 20 entries, each of role user or assistant.
WellShaped(h) ==
    /\ Len(h) <= MAX_HISTORY
    /\ \A i \in 1..Len(h) : h[i].type \in {"user", "assistant"}

\* C37: every history in a cache entry or in a workflow state has at most
\* 20 entries, each of role user or assistant, whatever calls of
\* process_chat_message and get_session_history and whatever expiries went
\* before, histories loaded from the store included.
C37_HistoryShape ==
    /\ \A sid \in DOMAIN session_cache : WellShaped(session_cache[sid].history)
    /\ WellShaped(state.chat_history)


\* -------------------------------------------------- the error the caller sees
ErrorStep ==
    (ChatStep /\ svc_call'.engine_invoked /\ pc' = "returned") =>
        chat_result'.error = result'.error

\* C38: the error of the result process_chat_message returns is the error
\* of the engine's result for the query; a failure of the provider or of
\* the evaluator, which the engine reports with success = true and a
\* non-empty error, reaches the caller with that error.
C38_ErrorReachesCaller == [][ErrorStep]_vars


\* ------------------------------------------------ cleared sessions stay so
\* A clear has returned and no call started while it ran.
ClearReturned ==
    IF svc_call.op = "clear_session"
        THEN svc_call.returned /\ svc_call.started_before = svc_call.started
        ELSE FALSE

\* A call of some thread that started after the clear returned has completed.
LaterCompleted ==
    \E t \in Threads :
        \/ ExThread(t).rounds > svc_call.started[t] + 1
        \/ ExThread(t).rounds > svc_call.started[t] /\ ExThread(t).pc = "done"

\* C39: once clear_session(s) has returned, and until a query for s that
\* started afterwards completes, the cache holds no entry for s and the
\* store holds no message for s, whatever a process_chat_message for s
\* that was in flight when the clear was called does.
C39_StaysCleared ==
    (ClearReturned /\ ~LaterCompleted) =>
        /\ SharedSession \notin DOMAIN session_cache
        /\ SessionRows(SharedSession) = << >>

=============================================================================
